---- MODULE Spec2Model ----
(***************************************************************************)
(* A model of three_d_resume.step_to_json: the conversion of an imported   *)
(* CAD assembly into the three-cad-viewer JSON document.                   *)
(*                                                                         *)
(* Shape handles are the opaque objects the import backend returns.  The   *)
(* model draws them from a fixed universe Handles; what the code can       *)
(* observe of a handle (its attributes, its python type, what the topology *)
(* explorer enumerates in it) is given by the tables below.                *)
(*                                                                         *)
(* Spec is one run of main(): convert_step_to_json from its first line to  *)
(* its return or its exception, and what main() then prints and returns.   *)
(* SpecUnit applies the helper functions on their own to arguments drawn   *)
(* from bounded sets: _try_import_builders, _normalize_cad_objects,        *)
(* _parse_js_object_literal, the color override, and of                    *)
(* three_d_resume.server generate_page_from_template and                   *)
(* ensure_page_exists.  SpecServer is the development server: handler      *)
(* threads of DevHandler.do_GET answering requests over one served tree.   *)
(***************************************************************************)
EXTENDS Integers, Sequences, FiniteSets, TLC

\* ------------------------------------------------------------- bounds
\* longest sequence an importer returns
MaxLen == 2
\* frames left to _explode_compound_to_supported before python raises
\* RecursionError
RecursionLimit == 3
\* range(5): the depth guard of the pre-export flattening loop
FlattenPasses == 5

\* ------------------------------------------------- the handle universe
Handles == 1..12

\* getattr(obj, "wrapped", obj): the raw topological shape of a handle
Wrapped(h) ==
  CASE h = 11 -> 8
    [] h = 12 -> 5
    [] OTHER  -> h

\* the topological kind of a raw shape ("None": not a topological shape)
Kind(t) ==
  CASE t \in {1, 2}       -> "Solid"
    [] t = 3              -> "Shell"
    [] t = 4              -> "Face"
    [] t \in {5, 6, 8, 9, 18, 19, 20} -> "Compound"
    [] t = 7              -> "CompSolid"
    [] OTHER              -> "None"

\* the direct sub-shapes of a raw shape, in the explorer's order
Children(t) ==
  CASE t = 5 -> <<1, 2>>
    [] t = 7 -> <<1, 2>>
    [] t = 8 -> <<5, 3>>
    [] t = 9 -> <<1>>
    [] t = 18 -> <<1, 2>>
    [] t = 19 -> <<3, 4>>
    [] t = 20 -> <<4>>
    [] OTHER -> <<>>

\* type(topo).__name__
PyType(t) ==
  CASE t \in {5, 8, 19, 20} -> "TopoDS_Compound"
    [] t \in {10, 13, 14} -> "Workplane"
    [] OTHER        -> "TopoDS_Shape"

\* what topo.ShapeType() reports: a kind, "absent" (no such attribute) or
\* "raise"
ShapeTypeOf(t) ==
  CASE t = 9  -> "raise"
    [] t \in {10, 13, 14} -> "absent"
    [] OTHER  -> Kind(t)

\* further handles, met by the helper functions applied on their own: an
\* empty workplane, a workplane holding a workplane, objects whose solid
\* enumerations raise or come back empty (13..17), a compound no explorer
\* can be built or run over (18), a compound of a free shell and a free
\* face (19) and a compound of one free face (20)
StubHandles == 13..20

\* whether every TopExp_Explorer over t fails, at construction or while it
\* is advanced
ExplorerRaises(t) == t = 18

\* whether getattr(s, "objects", None) is a list or tuple
HasObjects(h) == h \in {10, 13, 14}

\* the .objects attribute of a handle (<<>>: absent or empty)
Objects(h) ==
  CASE h = 10 -> <<7, 3>>
    [] h = 14 -> <<10, 1>>
    [] OTHER  -> <<>>

\* the .Solids() affordance: absent, a list, or raising
UpperSolids(h) ==
  CASE h = 11 -> [mode |-> "ok", val |-> <<1, 2>>]
    [] h = 15 -> [mode |-> "raise", val |-> <<>>]
    [] h = 16 -> [mode |-> "ok", val |-> <<>>]
    [] h = 17 -> [mode |-> "ok", val |-> <<>>]
    [] OTHER  -> [mode |-> "absent", val |-> <<>>]

\* the .solids() affordance: absent, a list, or raising
LowerSolids(h) ==
  CASE h = 12 -> [mode |-> "raise", val |-> <<>>]
    [] h = 15 -> [mode |-> "ok", val |-> <<1, 2>>]
    [] h = 16 -> [mode |-> "ok", val |-> <<3, 4>>]
    [] h = 17 -> [mode |-> "raise", val |-> <<>>]
    [] OTHER  -> [mode |-> "absent", val |-> <<>>]

\* ---------------------------------------------------- pure functions
RECURSIVE Extend(_)
\* out = []; for part in parts: out.extend(part)
Extend(parts) ==
  IF parts = <<>> THEN <<>> ELSE Head(parts) \o Extend(Tail(parts))

ToSequenceWrapsNone(res) ==
  CASE res.mode = "none"   -> <<0>>
    [] OTHER               -> res.val

\* _to_sequence: None -> [], a list or tuple -> list, anything else -> [it]
ToSequence(res) ==
  CASE res.mode = "none"   -> <<>>
    [] res.mode = "seq"    -> res.val
    [] res.mode = "single" -> res.val
    [] OTHER               -> <<>>

NormalizeOneDeep(s) ==
  IF Objects(s) # <<>>
    THEN Extend([i \in 1..Len(Objects(s)) |->
                   IF Objects(Objects(s)[i]) # <<>> THEN Objects(Objects(s)[i])
                   ELSE <<Objects(s)[i]>>])
  ELSE IF UpperSolids(s).mode = "ok" /\ UpperSolids(s).val # <<>>
    THEN UpperSolids(s).val
  ELSE IF LowerSolids(s).mode = "ok" /\ LowerSolids(s).val # <<>>
    THEN LowerSolids(s).val
  ELSE <<s>>

NormalizeOneRaiseDrops(s) ==
  IF Objects(s) # <<>> THEN Objects(s)
  ELSE IF UpperSolids(s).mode = "raise" THEN <<>>
  ELSE IF UpperSolids(s).mode = "ok" /\ UpperSolids(s).val # <<>>
    THEN UpperSolids(s).val
  ELSE IF LowerSolids(s).mode = "raise" THEN <<>>
  ELSE IF LowerSolids(s).mode = "ok" /\ LowerSolids(s).val # <<>>
    THEN LowerSolids(s).val
  ELSE <<s>>

\* one iteration of the loop of _normalize_cad_objects
NormalizeOne(s) ==
  IF Objects(s) # <<>> THEN Objects(s)
  ELSE IF UpperSolids(s).mode = "raise" THEN <<s>>
  ELSE IF UpperSolids(s).mode = "ok" /\ UpperSolids(s).val # <<>>
    THEN UpperSolids(s).val
  ELSE IF LowerSolids(s).mode = "raise" THEN <<s>>
  ELSE IF LowerSolids(s).mode = "ok" /\ LowerSolids(s).val # <<>>
    THEN LowerSolids(s).val
  ELSE <<s>>

\* _normalize_cad_objects
NormalizeCadObjects(shapes) ==
  Extend([i \in 1..Len(shapes) |-> NormalizeOne(shapes[i])])

RECURSIVE CollectFrom(_, _)
\* _collect_from(t, kind): what TopExp_Explorer(t, kind) enumerates: t itself
\* when it is of that kind, else the sub-shapes of that kind, depth first;
\* [] when the explorer fails
CollectFrom(t, kind) ==
  IF ExplorerRaises(t) THEN <<>>
  ELSE IF Kind(t) = kind THEN <<t>>
  ELSE Extend([i \in 1..Len(Children(t)) |-> CollectFrom(Children(t)[i], kind)])

RECURSIVE ExplodeDepth(_, _, _)
\* _explode_compound_to_supported(shape) with `depth` frames left on the
\* python stack: a call made with no frame left raises RecursionError in the
\* caller, whose `except Exception` returns [shape]
ExplodeDepth(ocp, shape, depth) ==
  IF ~ocp THEN <<shape>>
  ELSE
    LET topo       == Wrapped(shape)
        solids     == CollectFrom(topo, "Solid")
        compsolids == CollectFrom(topo, "CompSolid")
        nested     == Extend([i \in 1..Len(compsolids) |->
                                 CollectFrom(compsolids[i], "Solid")])
        shells     == CollectFrom(topo, "Shell")
        faces      == CollectFrom(topo, "Face")
        compounds  == CollectFrom(topo, "Compound")
        parts      == Extend([i \in 1..Len(compounds) |->
                                 ExplodeDepth(ocp, compounds[i], depth - 1)])
    IN  IF solids # <<>> THEN solids
        ELSE IF compsolids # <<>> /\ nested # <<>> THEN nested
        ELSE IF shells # <<>> THEN shells
        ELSE IF faces # <<>> THEN faces
        ELSE IF compounds # <<>>
          THEN IF depth <= 1 THEN <<shape>>
               ELSE IF parts # <<>> THEN parts
               ELSE <<shape>>
        ELSE <<shape>>

ExplodeIgnoringOcp(ocp, shape) == ExplodeDepth(TRUE, shape, RecursionLimit)

ExplodeMixing(ocp, shape) ==
  IF ~ocp THEN <<shape>>
  ELSE LET found == CollectFrom(Wrapped(shape), "Solid")
                      \o CollectFrom(Wrapped(shape), "Shell")
                      \o CollectFrom(Wrapped(shape), "Face")
       IN  IF found # <<>> THEN found
           ELSE ExplodeDepth(ocp, shape, RecursionLimit)

ExplodeDroppingUnknown(ocp, shape) ==
  IF ~ocp \/ ExplorerRaises(Wrapped(shape)) THEN <<>>
  ELSE ExplodeDepth(ocp, shape, RecursionLimit)

\* _explode_compound_to_supported, called from the top of the stack
ExplodeCompoundToSupported(ocp, shape) == ExplodeDepth(ocp, shape, RecursionLimit)

FlattenShapesReversed(ocp, shapes) ==
  Extend([i \in 1..Len(shapes) |->
            ExplodeDepth(ocp, shapes[Len(shapes) + 1 - i], RecursionLimit)])

\* _flatten_shapes
FlattenShapes(ocp, shapes) ==
  Extend([i \in 1..Len(shapes) |-> ExplodeCompoundToSupported(ocp, shapes[i])])

\* _looks_like_compound
LooksLikeCompound(ocp, obj) ==
  LET topo == Wrapped(obj)
      byOcp == \/ PyType(topo) = "TopoDS_Compound"
               \/ /\ ShapeTypeOf(topo) \notin {"absent", "raise"}
                  /\ ShapeTypeOf(topo) = "Compound"
  IN  IF ocp /\ byOcp THEN TRUE
      ELSE PyType(topo) = "TopoDS_Compound"

\* any(_looks_like_compound(s) for s in shapes)
AnyCompound(ocp, shapes) ==
  \E i \in 1..Len(shapes) : LooksLikeCompound(ocp, shapes[i])

\* [f"{base}_{i}" for i in range(len(shapes))]
NamesFor(base, shapes) ==
  [i \in 1..Len(shapes) |-> <<base, i - 1>>]

LoopContinuesUnbounded(ocp, n, shapes) == AnyCompound(ocp, shapes)

LoopContinuesOneMore(ocp, n, shapes) ==
  n <= FlattenPasses /\ AnyCompound(ocp, shapes)

\* whether iteration n (from 0) of `for _ in range(5)` runs and flattens
LoopContinues(ocp, n, shapes) ==
  n < FlattenPasses /\ AnyCompound(ocp, shapes)

RetryNamesStale(b, old, shapes) == old

\* names, rebuilt for the retry's shapes
RetryNames(b, old, shapes) == NamesFor(b, shapes)

TryImportBuildersNoNone(b3d, cq) ==
  IF b3d THEN [backend |-> "build123d", importer |-> "_import_step_b3d"]
  ELSE [backend |-> "cadquery", importer |-> "_import_step_cq"]

TryImportBuildersCadqueryFirst(b3d, cq) ==
  IF cq THEN [backend |-> "cadquery", importer |-> "_import_step_cq"]
  ELSE IF b3d THEN [backend |-> "build123d", importer |-> "_import_step_b3d"]
  ELSE [backend |-> "none", importer |-> "none"]

\* _try_import_builders: build123d first, then cadquery, else (None, None);
\* the pair (backend id, import function) it returns
TryImportBuilders(b3d, cq) ==
  IF b3d THEN [backend |-> "build123d", importer |-> "_import_step_b3d"]
  ELSE IF cq THEN [backend |-> "cadquery", importer |-> "_import_step_cq"]
  ELSE [backend |-> "none", importer |-> "none"]

IsInterfaceMismatchNever(e) == FALSE

\* `except TypeError`: the exporter does not take the tolerance keywords
IsInterfaceMismatch(e) == e.cls = "TypeError"

IsCompoundRejectionAlways(e) == TRUE

\* "TopoDS_Compound" in msg or "Compound" in msg
IsCompoundRejection(e) == e.compound

RetryShapesUnchanged(ocp, shapes) == shapes

RetryShapesDropCompounds(ocp, shapes) ==
  LET kept == {i \in 1..Len(shapes) : ~LooksLikeCompound(ocp, shapes[i])}
  IN  Extend([i \in 1..Len(shapes) |-> IF i \in kept THEN <<shapes[i]>> ELSE <<>>])

\* retry_shapes of the recovery pass: every element exploded again
RetryShapes(ocp, shapes) ==
  Extend([i \in 1..Len(shapes) |-> ExplodeCompoundToSupported(ocp, shapes[i])])

AfterRetryErrorAgain == "handler"

\* where control goes when the retry raises: `except Exception: raise`
AfterRetryError == "failed"

TempDirExitLeak(raised) == IF raised THEN "exists" ELSE "deleted"

\* the temporary directory once the `with` block is left, by return or by
\* exception
TempDirExit(raised) == "deleted"

\* ------------------------------------------- texts and their parsing
\* a text is the sequence of its characters
Lower == {"a", "b", "c", "d", "e", "f", "g", "h", "i", "j", "k", "l", "m",
          "n", "o", "p", "q", "r", "s", "t", "u", "v", "w", "x", "y", "z"}
Upper == {"A", "B", "C", "D", "E", "F", "G", "H", "I", "J", "K", "L", "M",
          "N", "O", "P", "Q", "R", "S", "T", "U", "V", "W", "X", "Y", "Z"}
Digit == {"0", "1", "2", "3", "4", "5", "6", "7", "8", "9"}
\* \s
Space == {" ", "\t", "\n", "\r", "\f"}
\* [a-zA-Z_$] and [\w$] of the assignment prologue
DeclStart == Lower \cup Upper \cup {"_", "$"}
DeclRest == DeclStart \cup Digit
\* [a-zA-Z_] and [a-zA-Z0-9_] of a bare key
KeyStart == Lower \cup Upper \cup {"_"}
KeyRest == KeyStart \cup Digit

\* the first position from i on whose character is not in class (Len(s) + 1
\* when there is none): where a greedy class* match begun at i ends
SkipWhile(s, i, class) ==
  CHOOSE j \in i..(Len(s) + 1) :
    /\ \A k \in i..(j - 1) : s[k] \in class
    /\ j = Len(s) + 1 \/ s[j] \notin class

\* whether the word w stands in s at position i
StartsWith(s, i, w) ==
  /\ i + Len(w) - 1 <= Len(s)
  /\ SubSeq(s, i, i + Len(w) - 1) = w

\* text.strip()
Strip(s) ==
  LET inked == {i \in 1..Len(s) : s[i] \notin Space}
  IN  IF inked = {} THEN <<>>
      ELSE SubSeq(s, CHOOSE i \in inked : \A j \in inked : i <= j,
                     CHOOSE i \in inked : \A j \in inked : j <= i)

\* (?:const|var|let)\s+[a-zA-Z_$][\w$]*\s*=\s* matched at p: the position after
\* the match, 0 when there is no match
DeclEnd(s, p) ==
  LET words == {w \in {<<"c", "o", "n", "s", "t">>, <<"v", "a", "r">>,
                       <<"l", "e", "t">>} : StartsWith(s, p, w)}
  IN  IF words = {} THEN 0
      ELSE LET w == CHOOSE x \in words : TRUE
               n == SkipWhile(s, p + Len(w), Space)
           IN  IF n = p + Len(w) \/ n > Len(s) \/ s[n] \notin DeclStart THEN 0
               ELSE LET e == SkipWhile(s, SkipWhile(s, n + 1, DeclRest), Space)
                    IN  IF e > Len(s) \/ s[e] # "=" THEN 0
                        ELSE SkipWhile(s, e + 1, Space)

\* ^(?:export\s+)?(?:const|var|let)\s+[a-zA-Z_$][\w$]*\s*=\s*
PrologueEnd(s) ==
  LET export == <<"e", "x", "p", "o", "r", "t">>
      n == SkipWhile(s, Len(export) + 1, Space)
  IN  IF StartsWith(s, 1, export) /\ n > Len(export) + 1 /\ DeclEnd(s, n) # 0
        THEN DeclEnd(s, n)
      ELSE DeclEnd(s, 1)

\* re.sub of the assignment prologue by ""
StripPrologue(s) ==
  IF PrologueEnd(s) = 0 THEN s ELSE SubSeq(s, PrologueEnd(s), Len(s))

\* re.sub(r";\s*$", "", src)
StripTerminator(s) ==
  LET ends == {i \in 1..Len(s) :
                 s[i] = ";" /\ \A k \in (i + 1)..Len(s) : s[k] \in Space}
  IN  IF ends = {} THEN s
      ELSE SubSeq(s, 1, (CHOOSE i \in ends : TRUE) - 1)

SliceObjectLenient(s) == [ok |-> TRUE, src |-> s]

\* src[src.find("{") : src.rfind("}") + 1], or ValueError
SliceObject(s) ==
  LET opens  == {i \in 1..Len(s) : s[i] = "{"}
      closes == {i \in 1..Len(s) : s[i] = "}"}
      start  == CHOOSE i \in opens : \A j \in opens : i <= j
      end    == CHOOSE i \in closes : \A j \in closes : j <= i
  IN  IF opens = {} \/ closes = {} THEN [ok |-> FALSE, src |-> <<>>]
      ELSE IF end < start THEN [ok |-> FALSE, src |-> <<>>]
      ELSE [ok |-> TRUE, src |-> SubSeq(s, start, end)]

\* (^|[,{\s])([a-zA-Z_][a-zA-Z0-9_]*)\s*: matched at p, with (?m): the text
\* of group 1, the key, and the position after the match
KeyMatch(s, p) ==
  LET keyAt(q) ==
        IF q > Len(s) \/ s[q] \notin KeyStart THEN 0
        ELSE LET c == SkipWhile(s, SkipWhile(s, q + 1, KeyRest), Space)
             IN  IF c <= Len(s) /\ s[c] = ":" THEN c ELSE 0
      key(q) == SubSeq(s, q, SkipWhile(s, q + 1, KeyRest) - 1)
  IN  IF (p = 1 \/ s[p - 1] = "\n") /\ keyAt(p) # 0
        THEN [ok |-> TRUE, lead |-> <<>>, key |-> key(p), next |-> keyAt(p) + 1]
      ELSE IF s[p] \in ({",", "{"} \cup Space) /\ keyAt(p + 1) # 0
        THEN [ok |-> TRUE, lead |-> <<s[p]>>, key |-> key(p + 1),
              next |-> keyAt(p + 1) + 1]
      ELSE [ok |-> FALSE, lead |-> <<>>, key |-> <<>>, next |-> p + 1]

RECURSIVE QuoteKeysFrom(_, _)
\* the text from p on with every match replaced by \1"\2": the text up to
\* the leftmost match at or after p, its replacement, and so on after it
QuoteKeysFrom(s, p) ==
  LET found == {q \in p..Len(s) : KeyMatch(s, q).ok}
      q     == CHOOSE x \in found : \A y \in found : x <= y
      m     == KeyMatch(s, q)
  IN  IF found = {} THEN SubSeq(s, p, Len(s))
      ELSE SubSeq(s, p, q - 1) \o m.lead \o <<"\"">> \o m.key \o <<"\"", ":">>
             \o QuoteKeysFrom(s, m.next)

\* re.sub(r'(?m)(^|[,{\s])([a-zA-Z_][a-zA-Z0-9_]*)\s*:', r'\1"\2":', src)
QuoteKeys(s) == QuoteKeysFrom(s, 1)

\* ,\s*([}\]]) matched at p: the position of the bracket, 0 when there is no
\* match
CommaMatch(s, p) ==
  LET q == SkipWhile(s, p + 1, Space)
  IN  IF s[p] = "," /\ q <= Len(s) /\ s[q] \in {"}", "]"} THEN q ELSE 0

RECURSIVE DropTrailingCommasFrom(_, _)
\* the text from p on with every match replaced by \1
DropTrailingCommasFrom(s, p) ==
  LET found == {q \in p..Len(s) : CommaMatch(s, q) # 0}
      q     == CHOOSE x \in found : \A y \in found : x <= y
  IN  IF found = {} THEN SubSeq(s, p, Len(s))
      ELSE SubSeq(s, p, q - 1) \o DropTrailingCommasFrom(s, CommaMatch(s, q))

DropTrailingCommasNot(s) == s

\* re.sub(r",\s*([}\]])", r"\1", src)
DropTrailingCommas(s) == DropTrailingCommasFrom(s, 1)

\* json.loads.  A document is a tagged value: [t |-> "obj", v |-> a function
\* from keys to documents], [t |-> "arr", v |-> a sequence of documents],
\* and "str", "num", "lit" (true, false, null, NaN, Infinity) with the
\* characters of the value
JsonSpace == {" ", "\t", "\n", "\r"}

\* the character at position q ("" past the end)
At(s, q) == IF q >= 1 /\ q <= Len(s) THEN s[q] ELSE ""

NoParse == [ok |-> FALSE, val |-> <<>>, next |-> 0]

\* a dict built from its members in order: a repeated key keeps its last value
ObjOf(pairs) ==
  [k \in {pairs[i][1] : i \in 1..Len(pairs)} |->
     pairs[CHOOSE i \in 1..Len(pairs) :
             /\ pairs[i][1] = k
             /\ \A j \in 1..Len(pairs) : pairs[j][1] = k => j <= i][2]]

\* the character a backslash escape stands for ("" when the escape is not one
\* of those the texts here use)
Unescape(c) ==
  CASE c = "\""  -> "\""
    [] c = "\\"  -> "\\"
    [] c = "/"   -> "/"
    [] c = "n"   -> "\n"
    [] c = "t"   -> "\t"
    [] c = "r"   -> "\r"
    [] OTHER     -> ""

RECURSIVE ScanString(_, _, _)
\* the string whose opening quote precedes q
ScanString(s, q, acc) ==
  IF q > Len(s) THEN NoParse
  ELSE IF s[q] = "\"" THEN [ok |-> TRUE, val |-> acc, next |-> q + 1]
  ELSE IF s[q] = "\\"
    THEN IF Unescape(At(s, q + 1)) = "" THEN NoParse
         ELSE ScanString(s, q + 2, Append(acc, Unescape(At(s, q + 1))))
  ELSE IF s[q] \in {"\n", "\t", "\r", "\f"} THEN NoParse
  ELSE ScanString(s, q + 1, Append(acc, s[q]))

\* (-?(?:0|[1-9]\d*))(\.\d+)?([eE][-+]?\d+)? matched at p: the position after
\* the match, 0 when there is no match
NumberEnd(s, p) ==
  LET i0 == IF At(s, p) = "-" THEN p + 1 ELSE p
      i1 == IF At(s, i0) = "0" THEN i0 + 1 ELSE SkipWhile(s, i0, Digit)
      i2 == IF At(s, i1) = "." /\ At(s, i1 + 1) \in Digit
              THEN SkipWhile(s, i1 + 1, Digit) ELSE i1
      e0 == IF At(s, i2 + 1) \in {"+", "-"} THEN i2 + 2 ELSE i2 + 1
  IN  IF At(s, i0) \notin Digit THEN 0
      ELSE IF At(s, i2) \in {"e", "E"} /\ At(s, e0) \in Digit
        THEN SkipWhile(s, e0, Digit)
      ELSE i2

JsonLiterals ==
  {<<"n", "u", "l", "l">>, <<"t", "r", "u", "e">>, <<"f", "a", "l", "s", "e">>,
   <<"N", "a", "N">>, <<"I", "n", "f", "i", "n", "i", "t", "y">>,
   <<"-", "I", "n", "f", "i", "n", "i", "t", "y">>}

RECURSIVE ParseValue(_, _)
RECURSIVE ParseMembers(_, _, _)
RECURSIVE ParseElements(_, _, _)

\* the value that begins at p
ParseValue(s, p) ==
  LET q    == SkipWhile(s, p + 1, JsonSpace)
      str  == ScanString(s, p + 1, <<>>)
      lits == {w \in JsonLiterals : StartsWith(s, p, w)}
      lit  == CHOOSE w \in lits : TRUE
  IN  IF At(s, p) = "\""
        THEN IF str.ok THEN [str EXCEPT !.val = [t |-> "str", v |-> str.val]]
             ELSE NoParse
      ELSE IF At(s, p) = "{"
        THEN IF At(s, q) = "}"
               THEN [ok |-> TRUE, val |-> [t |-> "obj", v |-> <<>>], next |-> q + 1]
             ELSE ParseMembers(s, q, <<>>)
      ELSE IF At(s, p) = "["
        THEN IF At(s, q) = "]"
               THEN [ok |-> TRUE, val |-> [t |-> "arr", v |-> <<>>], next |-> q + 1]
             ELSE ParseElements(s, q, <<>>)
      ELSE IF NumberEnd(s, p) # 0
        THEN [ok |-> TRUE,
              val |-> [t |-> "num", v |-> SubSeq(s, p, NumberEnd(s, p) - 1)],
              next |-> NumberEnd(s, p)]
      ELSE IF lits # {}
        THEN [ok |-> TRUE, val |-> [t |-> "lit", v |-> lit], next |-> p + Len(lit)]
      ELSE NoParse

\* the members of an object from the key at q on, acc those before
ParseMembers(s, q, acc) ==
  LET key   == ScanString(s, q + 1, <<>>)
      colon == SkipWhile(s, key.next, JsonSpace)
      val   == ParseValue(s, SkipWhile(s, colon + 1, JsonSpace))
      d     == SkipWhile(s, val.next, JsonSpace)
      all   == Append(acc, <<key.val, val.val>>)
  IN  IF At(s, q) # "\"" \/ ~key.ok THEN NoParse
      ELSE IF At(s, colon) # ":" THEN NoParse
      ELSE IF ~val.ok THEN NoParse
      ELSE IF At(s, d) = "}"
        THEN [ok |-> TRUE, val |-> [t |-> "obj", v |-> ObjOf(all)], next |-> d + 1]
      ELSE IF At(s, d) = ","
        THEN ParseMembers(s, SkipWhile(s, d + 1, JsonSpace), all)
      ELSE NoParse

\* the elements of an array from the value at q on, acc those before
ParseElements(s, q, acc) ==
  LET val == ParseValue(s, q)
      d   == SkipWhile(s, val.next, JsonSpace)
      all == Append(acc, val.val)
  IN  IF ~val.ok THEN NoParse
      ELSE IF At(s, d) = "]"
        THEN [ok |-> TRUE, val |-> [t |-> "arr", v |-> all], next |-> d + 1]
      ELSE IF At(s, d) = ","
        THEN ParseElements(s, SkipWhile(s, d + 1, JsonSpace), all)
      ELSE NoParse

\* json.loads(src): one value and nothing but white space around it
JsonLoads(s) ==
  LET val == ParseValue(s, SkipWhile(s, 1, JsonSpace))
  IN  IF val.ok /\ SkipWhile(s, val.next, JsonSpace) = Len(s) + 1
        THEN [ok |-> TRUE, doc |-> val.val]
      ELSE [ok |-> FALSE, doc |-> <<>>]

\* the texts the parser is applied to
\* var x = { name: "a", parts: [ {color: "#fff",}, ], };
LiteralText ==
  <<"v", "a", "r", " ", "x", " ", "=", " ", "{", " ", "n", "a", "m", "e",
    ":", " ", "\"", "a", "\"", ",", " ", "p", "a", "r", "t", "s", ":", " ",
    "[", " ", "{", "c", "o", "l", "o", "r", ":", " ", "\"", "#", "f", "f",
    "f", "\"", ",", "}", ",", " ", "]", ",", " ", "}", ";">>

\* export const m = {parts: [{color: "#fff", id: 1}, {id: 2},]};
ViewerText ==
  <<"e", "x", "p", "o", "r", "t", " ", "c", "o", "n", "s", "t", " ", "m",
    " ", "=", " ", "{", "p", "a", "r", "t", "s", ":", " ", "[", "{", "c",
    "o", "l", "o", "r", ":", " ", "\"", "#", "f", "f", "f", "\"", ",", " ",
    "i", "d", ":", " ", "1", "}", ",", " ", "{", "i", "d", ":", " ", "2",
    "}", ",", "]", "}", ";">>

\* var m = [1];  (no "{")
NoOpenText ==
  <<"v", "a", "r", " ", "m", " ", "=", " ", "[", "1", "]", ";">>

\* var m = {parts: [  (no "}")
NoCloseText ==
  <<"v", "a", "r", " ", "m", " ", "=", " ", "{", "p", "a", "r", "t", "s",
    ":", " ", "[">>

\* } var m = {  (the last "}" precedes the first "{")
ReversedText ==
  <<"}", " ", "v", "a", "r", " ", "m", " ", "=", " ", "{">>

\* {parts: ['a']}  (not JSON once the keys are quoted)
SingleQuoteText ==
  <<"{", "p", "a", "r", "t", "s", ":", " ", "[", "'", "a", "'", "]", "}">>

\* {"t": "a b: c"}  (JSON as it stands)
ColonInStringText ==
  <<"{", "\"", "t", "\"", ":", " ", "\"", "a", " ", "b", ":", " ", "c",
    "\"", "}">>

\* let v = [{color: "#fff"}];  (the braces are inside a list)
ListText ==
  <<"l", "e", "t", " ", "v", " ", "=", " ", "[", "{", "c", "o", "l", "o",
    "r", ":", " ", "\"", "#", "f", "f", "f", "\"", "}", "]", ";">>

\* var $m_1={} ;  with white space around it
EmptyObjectText ==
  <<" ", " ", "v", "a", "r", " ", "$", "m", "_", "1", "=", "{", "}", " ",
    ";", " ", "\n">>

\* {parts: [{color: 1, id: -2.5e3}, "p", null], version: 3}
NumbersText ==
  <<"{", "p", "a", "r", "t", "s", ":", " ", "[", "{", "c", "o", "l", "o",
    "r", ":", " ", "1", ",", " ", "i", "d", ":", " ", "-", "2", ".", "5",
    "e", "3", "}", ",", " ", "\"", "p", "\"", ",", " ", "n", "u", "l", "l",
    "]", ",", " ", "v", "e", "r", "s", "i", "o", "n", ":", " ", "3", "}">>

\* const m = {parts: {color: "#fff"}, color: "#000"};
PartsObjectText ==
  <<"c", "o", "n", "s", "t", " ", "m", " ", "=", " ", "{", "p", "a", "r",
    "t", "s", ":", " ", "{", "c", "o", "l", "o", "r", ":", " ", "\"", "#",
    "f", "f", "f", "\"", "}", ",", " ", "c", "o", "l", "o", "r", ":", " ",
    "\"", "#", "0", "0", "0", "\"", "}", ";">>

\* {parts: [{color: "#fff", parts: [{color: "#000"}]}], color: "#abc"}
NestedText ==
  <<"{", "p", "a", "r", "t", "s", ":", " ", "[", "{", "c", "o", "l", "o", "r",
    ":", " ", "\"", "#", "f", "f", "f", "\"", ",", " ", "p", "a", "r", "t",
    "s", ":", " ", "[", "{", "c", "o", "l", "o", "r", ":", " ", "\"", "#",
    "0", "0", "0", "\"", "}", "]", "}", "]", ",", " ", "c", "o", "l", "o",
    "r", ":", " ", "\"", "#", "a", "b", "c", "\"", "}">>

\* what export_three_cad_viewer_js may leave at js_path
Texts == {ViewerText, NoCloseText, SingleQuoteText}

\* the texts _parse_js_object_literal is applied to on its own
ParserTexts ==
  {LiteralText, ViewerText, NoOpenText, NoCloseText, ReversedText,
   SingleQuoteText, ColonInStringText, ListText, EmptyObjectText,
   NumbersText, PartsObjectText, NestedText, <<>>}

\* js_path does not exist
NoFile == <<"absent">>

\* the value a failed parse leaves
NoDoc == [t |-> "none", v |-> <<>>]

ParseAnything(text) == [ok |-> TRUE, doc |-> NoDoc]

\* _parse_js_object_literal: the document, or ValueError (json.JSONDecodeError
\* is one)
ParseJsObjectLiteral(text) ==
  LET src == SliceObject(StripTerminator(StripPrologue(Strip(text))))
      doc == JsonLoads(DropTrailingCommas(QuoteKeys(src.src)))
  IN  IF src.ok /\ doc.ok THEN [ok |-> TRUE, doc |-> doc.doc]
      ELSE [ok |-> FALSE, doc |-> NoDoc]

\* _parse_js_object_literal, tabulated over the texts it is applied to
Parsed == [t \in ParserTexts |-> ParseJsObjectLiteral(t)]

\* the dict keys "parts" and "color"
PartsKey == <<"p", "a", "r", "t", "s">>
ColorKey == <<"c", "o", "l", "o", "r">>

OverrideColorNever(doc, c) == doc

OverrideColorEveryPart(doc, c) ==
  IF c = <<>> \/ doc.t # "obj" THEN doc
  ELSE IF PartsKey \notin DOMAIN doc.v THEN doc
  ELSE IF doc.v[PartsKey].t # "arr" THEN doc
  ELSE [doc EXCEPT !.v[PartsKey].v =
          [i \in 1..Len(@) |->
             IF @[i].t = "obj"
               THEN [@[i] EXCEPT !.v =
                       [k \in DOMAIN @ \cup {ColorKey} |->
                          IF k = ColorKey THEN [t |-> "str", v |-> c] ELSE @[k]]]
             ELSE @[i]]]

\* the color override (lines 403-411): c is the color (<<>>: None or ""); a
\* document that is no dict has no .get, parts that is no list has no dict to
\* offer, and then nothing changes
OverrideColor(doc, c) ==
  IF c = <<>> \/ doc.t # "obj" THEN doc
  ELSE IF PartsKey \notin DOMAIN doc.v THEN doc
  ELSE IF doc.v[PartsKey].t # "arr" THEN doc
  ELSE [doc EXCEPT !.v[PartsKey].v =
          [i \in 1..Len(@) |->
             IF @[i].t = "obj" /\ ColorKey \in DOMAIN @[i].v
               THEN [@[i] EXCEPT !.v[ColorKey] = [t |-> "str", v |-> c]]
             ELSE @[i]]]

\* ------------------------------------------- the page and its sections
\* a page is the sequence of its tags and texts; an id is a tuple of words
\* (<<>>: none)
OpenTag(tag, id) == [k |-> "open", tag |-> tag, id |-> id]
CloseTag(tag) == [k |-> "close", tag |-> tag, id |-> <<>>]
Text(t) == [k |-> "text", tag |-> "", id |-> <<t>>]

\* the list sections, in the order generate_page_from_template treats them
Sections == <<"skills", "work", "education", "awards", "references", "interests">>

\* the id of the element a section's items are rendered into

\* <section id="sec"><h2>..</h2><div id="secList"></div></section>
SectionBlock(sec) ==
  << OpenTag("section", <<sec>>), OpenTag("h2", <<>>), Text("heading"), CloseTag("h2"),
     OpenTag("div", <<sec, "List">>), CloseTag("div"), CloseTag("section") >>

\* assets/html/template.html: a head, the basics and the six list sections
Template ==
  << OpenTag("title", <<>>), Text("title"), CloseTag("title"),
     OpenTag("h1", <<"name">>), CloseTag("h1") >>
    \o SectionBlock("skills") \o SectionBlock("work")
    \o SectionBlock("education") \o SectionBlock("awards")
    \o SectionBlock("references") \o SectionBlock("interests")

\* set_inner(h, elem_id, new_html): the first element with that id, up to
\* the first closing tag after it, gets new_html as its content
SetInner(h, id, new) ==
  LET opens == {i \in 1..Len(h) :
                  /\ h[i].k = "open" /\ h[i].id = id
                  /\ \E j \in (i + 1)..Len(h) : h[j].k = "close"}
      i == CHOOSE x \in opens : \A y \in opens : x <= y
      closes == {j \in (i + 1)..Len(h) : h[j].k = "close"}
      j == CHOOSE x \in closes : \A y \in closes : x <= y
  IN  IF opens = {} THEN h
      ELSE SubSeq(h, 1, i) \o new \o SubSeq(h, j, Len(h))

RemoveSectionNot(h, sec) == h

\* remove_section(h, sec_id): the first <section id="sec_id"> that has a
\* </section> after it is removed, up to the nearest </section>
RemoveSection(h, sec) ==
  LET opens == {i \in 1..Len(h) :
                  /\ h[i] = OpenTag("section", <<sec>>)
                  /\ \E j \in (i + 1)..Len(h) : h[j] = CloseTag("section")}
      i == CHOOSE x \in opens : \A y \in opens : x <= y
      closes == {j \in (i + 1)..Len(h) : h[j] = CloseTag("section")}
      j == CHOOSE x \in closes : \A y \in closes : x <= y
  IN  IF opens = {} THEN h
      ELSE SubSeq(h, 1, i - 1) \o SubSeq(h, j + 1, Len(h))

\* what resume.json may hold: whether it could be read and parsed, whether
\* it has `basics`, and each list as absent, [] or a list of one item
ListStates == {"absent", "empty", "some"}
Resumes ==
  {[loaded |-> l, basics |-> b, lists |-> f] :
     l \in BOOLEAN, b \in BOOLEAN,
     f \in [{Sections[n] : n \in 1..Len(Sections)} -> ListStates]}

\* `if resume:` a dict is true when it has a key; resume stays {} when
\* resume.json could not be read or parsed
HasResumeData(resume) ==
  /\ resume.loaded
  /\ resume.basics \/ \E n \in 1..Len(Sections) : resume.lists[Sections[n]] # "absent"

\* one list section of the page: its items rendered into its list element,
\* or the section removed when resume.get(sec, []) is empty
RenderSection(h, sec, state) ==
  IF state = "some" THEN SetInner(h, <<sec, "List">>, <<Text(sec)>>)
  ELSE RemoveSection(h, sec)

RECURSIVE RenderSections(_, _, _)
\* the list sections from the n-th on, rendered in turn
RenderSections(h, resume, n) ==
  IF n > Len(Sections) THEN h
  ELSE RenderSections(RenderSection(h, Sections[n], resume.lists[Sections[n]]),
                      resume, n + 1)

\* the html generate_page_from_template writes, from the template and resume
GeneratePage(resume) ==
  IF HasResumeData(resume)
    THEN RenderSections(SetInner(Template, <<"name">>, <<Text("name")>>), resume, 1)
  ELSE Template

\* ------------------------------------------------ the pages of page/
\* modification times; a page written now is later than every file there is
Mtimes == 0..1
Now == 2

\* the names timestamp_name() gives (one per second) and the pages page/
\* may hold before a call: a page written within the second of an older one
\* has its name
PageNames == 1..3

\* what a page holds, as far as ensure_page_exists reads it: no ./assets/
\* reference, href="./assets/, src="./assets/, a reference of another form
\* (single quotes, url(./assets/...)), or bytes open(..., "utf-8") cannot read
Contents == {"clean", "href", "src", "other", "unreadable"}

NoSuchFile == [exists |-> FALSE, mtime |-> 0, content |-> "clean"]
SourceFiles == {NoSuchFile} \cup {[exists |-> TRUE, mtime |-> m, content |-> "clean"] : m \in Mtimes}
PageFiles ==
  {NoSuchFile} \cup {[exists |-> TRUE, mtime |-> m, content |-> c] : m \in Mtimes, c \in Contents}

\* the order os.listdir returns the names in
Listings == {<<1, 2, 3>>, <<2, 1, 3>>}

FindFirstListed(pages, listing) ==
  LET candidates == SelectSeq(listing, LAMBDA n : pages[n].exists)
  IN  IF candidates = <<>> THEN 0 ELSE candidates[1]

\* find_newest_page(): the first of the listed pages with the latest
\* modification time (the sort is stable), 0 for None
FindNewestPage(pages, listing) ==
  LET candidates == SelectSeq(listing, LAMBDA n : pages[n].exists)
      latest == SelectSeq(candidates,
                  LAMBDA n : \A i \in 1..Len(candidates) :
                               pages[candidates[i]].mtime <= pages[n].mtime)
  IN  IF candidates = <<>> THEN 0 ELSE latest[1]

\* generate_page_from_template() as ensure_page_exists sees it: it raises
\* FileNotFoundError without a template, and else writes the page named by
\* the clock, over a page of that name if there is one
GenerateInto(fs) ==
  IF ~fs.template.exists
    THEN [raised |-> TRUE, generated |-> FALSE, path |-> 0, pages |-> fs.pages]
  ELSE [raised |-> FALSE, generated |-> TRUE, path |-> fs.stamp,
        pages |-> [fs.pages EXCEPT ![fs.stamp] =
                     [exists |-> TRUE, mtime |-> Now, content |-> "clean"]]]

\* ensure_page_exists(force)
EnsurePageExists(fs, force) ==
  LET newest == FindNewestPage(fs.pages, fs.listing)
      newer == \E src \in {fs.template, fs.resume} :
                 src.exists /\ src.mtime > fs.pages[newest].mtime
      content == fs.pages[newest].content
  IN  IF force THEN GenerateInto(fs)
      ELSE IF newest = 0 THEN GenerateInto(fs)
      ELSE IF newer THEN GenerateInto(fs)
      ELSE IF content = "unreadable" THEN GenerateInto(fs)
      ELSE IF content \in {"href", "src"} THEN GenerateInto(fs)
      ELSE [raised |-> FALSE, generated |-> FALSE, path |-> newest, pages |-> fs.pages]

\* the trees ensure_page_exists is called in
EnsureInputs ==
  {[force |-> f,
    fs |-> [template |-> t, resume |-> r, listing |-> l, stamp |-> s,
            pages |-> [n \in PageNames |-> IF n = 1 THEN p1 ELSE IF n = 2 THEN p2
                                           ELSE NoSuchFile]]] :
     f \in BOOLEAN, t \in SourceFiles, r \in SourceFiles, l \in Listings,
     s \in {2, 3}, p1 \in PageFiles, p2 \in PageFiles}

\* ---------------------------------------------- the served tree
\* A path is a sequence of segments and a segment a sequence of pieces of
\* text, none of which begins another: text is compared piece by piece.
Up == <<"..">>

\* os.getcwd() of the server, and its parent's other directories: one whose
\* name begins with the name of the root, and one whose name does not
Root == << <<"srv">>, <<"app">> >>

\* the files of the tree besides the pages
StaticFiles ==
  { Root \o << <<"x", ".html">> >>, Root \o << <<"y", ".png">> >>,
    << <<"srv">>, <<"app", "-secret">>, <<"x", ".html">> >>,
    << <<"srv">>, <<"app", "-secret">>, <<"y", ".png">> >>,
    << <<"srv">>, <<"other">>, <<"x", ".html">> >> }

\* page/<timestamp>.html
PageRequest(n) == << <<"page">>, <<(<<"t1", "t2", "t3">>)[n], ".html">> >>

\* the request targets, without the leading "/" of their segments
Routed == { <<>>, << <<"index", ".html">> >> }
Favicon == << <<"favicon", ".ico">> >>
Requests ==
  Routed \cup
  { Favicon,
    << <<"x", ".html">> >>, << <<"y", ".png">> >>, << <<"nope", ".html">> >>,
    << Up, <<"app", "-secret">>, <<"x", ".html">> >>,
    << Up, <<"app", "-secret">>, <<"y", ".png">> >>,
    << Up, <<"other">>, <<"x", ".html">> >> }

RECURSIVE PathString(_)
\* the text of an absolute path
PathString(path) ==
  IF path = <<>> THEN <<>>
  ELSE <<"/">> \o Head(path) \o PathString(Tail(path))

\* fs_path.startswith(root): a comparison of text
PathStartsWith(text, prefix) ==
  /\ Len(prefix) <= Len(text)
  /\ SubSeq(text, 1, Len(prefix)) = prefix

RECURSIVE AbsPath(_, _)
\* os.path.abspath(os.path.join(base, segments)): ".." leaves a directory
AbsPath(base, segments) ==
  IF segments = <<>> THEN base
  ELSE IF Head(segments) = Up
    THEN AbsPath(IF base = <<>> THEN base ELSE SubSeq(base, 1, Len(base) - 1),
                 Tail(segments))
  ELSE AbsPath(Append(base, Head(segments)), Tail(segments))

\* SimpleHTTPRequestHandler.translate_path: ".." segments are dropped
TranslatePath(segments) ==
  Root \o SelectSeq(segments, LAMBDA seg : seg # Up)

\* os.path.splitext(path)[1].lower()
Ext(path) ==
  IF path = <<>> THEN ""
  ELSE LET name == path[Len(path)]
       IN  IF Len(name) > 1 THEN name[Len(name)] ELSE ""

\* os.path.isfile(path)
IsFile(path, pages) ==
  \/ path \in StaticFiles
  \/ \E n \in PageNames : path = Root \o PageRequest(n) /\ pages[n].exists

\* what open(path).read() returns: "clean" for a whole file, "empty" for a
\* page that was opened for writing and not written yet
ReadFile(path, pages) ==
  IF \E n \in PageNames : path = Root \o PageRequest(n)
    THEN pages[CHOOSE n \in PageNames : path = Root \o PageRequest(n)].content
  ELSE "clean"

\* the handler threads, and a thread before its request
Threads == 1..2
Idle ==
  [pc |-> "idle", request |-> <<>>, path |-> <<>>, out |-> 0,
   response |-> [status |-> 0, via |-> "none", file |-> <<>>, body |-> "none"]]

\* the trees the server starts in: page/ empty or holding one older page
Sites ==
  {[template |-> t, resume |-> r, listing |-> l, stamp |-> 2, clock |-> Now,
    pages |-> [n \in PageNames |-> IF n = 1 THEN p ELSE NoSuchFile]] :
     t \in SourceFiles, r \in SourceFiles, l \in Listings,
     p \in {NoSuchFile} \cup {[exists |-> TRUE, mtime |-> m, content |-> "clean"] : m \in Mtimes}}

\* ------------------------------------------------------------ inputs
RECURSIVE SeqsUpTo(_, _)
SeqsUpTo(S, n) ==
  IF n = 0 THEN {<<>>}
  ELSE LET shorter == SeqsUpTo(S, n - 1)
       IN  shorter \cup {Append(q, x) : q \in {r \in shorter : Len(r) = n - 1}, x \in S}

\* the model_name and color arguments of convert_step_to_json ("", <<>>: None);
\* each is drawn where the code first reads it
ModelNames == {"", "m"}
Colors == {<<>>, <<"#", "f", "0", "0">>}

\* the objects an importer returns at top level: every handle but solid 2
\* and face 4, which convert treats there as it treats solid 1 and shell 3
TopLevel == Handles \ {2, 4}

\* what importer(input_path) may do: raise, return None, one handle, or a list
ImportResults ==
  {[mode |-> "raise", val |-> <<>>], [mode |-> "none", val |-> <<>>]}
    \cup {[mode |-> "single", val |-> <<h>>] : h \in TopLevel}
    \cup {[mode |-> "seq", val |-> q] : q \in SeqsUpTo(TopLevel, MaxLen)}

\* what one call of export_three_cad_viewer_js may do
ExporterOutcomes ==
  {[res |-> "ok", wrote |-> TRUE, text |-> t, cls |-> "", compound |-> FALSE] :
      t \in Texts}
    \cup {[res |-> "ok", wrote |-> FALSE, text |-> NoFile, cls |-> "",
           compound |-> FALSE]}
    \cup {[res |-> "raise", wrote |-> FALSE, text |-> NoFile, cls |-> c, compound |-> m] :
            c \in {"TypeError", "Other"}, m \in BOOLEAN}

NoError == [kind |-> "none", cls |-> "", compound |-> FALSE, call |-> 0]
PlainError(k) == [kind |-> k, cls |-> "", compound |-> FALSE, call |-> 0]

\* main() has not returned
NotReturned == [code |-> -1, stderr |-> <<>>, stdout |-> <<>>]

MainReturnAlwaysZero(raised) ==
  IF raised THEN [code |-> 0, stderr |-> <<"Error", "Hint">>, stdout |-> <<>>]
  ELSE [code |-> 0, stderr |-> <<>>, stdout |-> <<"Wrote JSON">>]

\* what main() prints and returns once convert_step_to_json has raised or
\* returned: "Error: ..." and the "Hint: ..." on stderr and 2, or
\* "Wrote JSON to ..." on stdout and 0
MainReturn(raised) ==
  IF raised THEN [code |-> 2, stderr |-> <<"Error", "Hint">>, stdout |-> <<>>]
  ELSE [code |-> 0, stderr |-> <<>>, stdout |-> <<"Wrote JSON">>]

\* ------------------------------------------------------------- state
VARIABLES
  pc,          \* the position in convert_step_to_json
  b3dOk, cqOk, \* whether the build123d / cadquery probes succeeded (FALSE
               \* until made; cadquery is probed only once build123d failed)
  tessOk,      \* whether ocp_tessellate can be imported
  ocpOk,       \* whether the OCP exploration utilities can be imported
  modelName,   \* model_name ("" for None), once read
  color,       \* color (<<>> for None), once read
  backend,     \* the backend _try_import_builders returned
  imported,    \* whether importer(input_path) was called
  importRes,   \* what it returned
  shapes, names, base,
  passes,      \* flatten passes performed by the pre-export loop
  iter,        \* iterations of the pre-export loop begun
  reflattens,  \* recovery passes performed
  calls,       \* the invocations of the exporter, in order
  pending,     \* the exception the `except Exception as e` handler holds
  tmp,         \* the temporary directory: "none", "exists", "deleted"
  tmpAcquired, \* temporary directories created
  jsFile,      \* the content of js_path
  jsText, data,
  outFile,     \* the content of output_path ("absent" when never written)
  outWrites,   \* times output_path was opened for writing
  err,         \* the error convert raised
  unit,        \* the helper function applied on its own ("none": convert runs)
  input,       \* the argument it is applied to
  output,      \* what it returned
  returned,    \* whether it has returned
  exit,        \* what main() returned and printed
  site,        \* the served tree: template, resume.json, page/ and the clock
  handler      \* the handler threads of the server

vars == <<pc, b3dOk, cqOk, tessOk, ocpOk, modelName, color, backend, imported,
          importRes, shapes, names, base, passes, iter, reflattens, calls,
          pending, tmp, tmpAcquired, jsFile, jsText, data, outFile, outWrites,
          err, unit, input, output, returned, exit, site, handler>>

\* the variables of a helper function applied on its own
helper == <<unit, input, output, returned>>

env == <<b3dOk, cqOk, tessOk, ocpOk>>

\* the variables of the development server
server == <<site, handler>>

\* no server is running
ServerAtRest ==
  /\ site = [template |-> NoSuchFile, resume |-> NoSuchFile, listing |-> <<1, 2, 3>>,
             stamp |-> 2, clock |-> Now, pages |-> [n \in PageNames |-> NoSuchFile]]
  /\ handler = [t \in Threads |-> Idle]

Init ==
  /\ pc = "start"
  /\ b3dOk = FALSE /\ cqOk = FALSE
  /\ tessOk \in BOOLEAN /\ ocpOk \in BOOLEAN
  /\ modelName = "" /\ color = <<>>
  /\ backend = "none"
  /\ imported = FALSE
  /\ importRes = [mode |-> "none", val |-> <<>>]
  /\ shapes = <<>> /\ names = <<>> /\ base = ""
  /\ passes = 0 /\ iter = 0 /\ reflattens = 0
  /\ calls = <<>>
  /\ pending = NoError
  /\ tmp = "none" /\ tmpAcquired = 0
  /\ jsFile = NoFile /\ jsText = NoFile /\ data = NoDoc
  /\ outFile = "absent" /\ outWrites = 0
  /\ err = NoError
  /\ exit = NotReturned
  /\ unit = "none" /\ input = <<>> /\ output = <<>> /\ returned = FALSE
  /\ ServerAtRest

\* ------------------------------------------------------------ actions
\* an exception leaving convert from outside the `with` block; main() catches
\* it, prints and returns
Raise(e) ==
  /\ pc' = "failed"
  /\ err' = e
  /\ exit' = MainReturn(TRUE)

\* an exception leaving convert from inside the `with` block; main() catches
\* it, prints and returns
RaiseInTemp(e) ==
  /\ pc' = "failed"
  /\ err' = e
  /\ exit' = MainReturn(TRUE)
  /\ tmp' = TempDirExit(TRUE)
  /\ jsFile' = IF TempDirExit(TRUE) = "deleted" THEN NoFile ELSE jsFile

\* the record of one invocation of export_three_cad_viewer_js: its arguments,
\* whether it is made after the recovery pass, and what the exporter did
Invocation(tol, o) ==
  [base |-> base, shapes |-> shapes, names |-> names,
   path |-> <<tmpAcquired, base>>, tol |-> tol, retry |-> reflattens,
   out |-> o]

ExporterError(o) ==
  [kind |-> "Exporter", cls |-> o.cls, compound |-> o.compound,
   call |-> Len(calls) + 1]

\* backend, importer = _try_import_builders(); if not importer: raise
Resolve ==
  /\ pc = "start"
  /\ \E b \in BOOLEAN : \E c \in (IF b THEN {FALSE} ELSE BOOLEAN) :
       /\ b3dOk' = b
       /\ cqOk' = c
       /\ backend' = TryImportBuilders(b, c).backend
       /\ IF TryImportBuilders(b, c).importer = "none"
            THEN Raise(PlainError("NoImporter"))
            ELSE pc' = "tessellate" /\ UNCHANGED <<err, exit>>
  /\ UNCHANGED <<tessOk, ocpOk, helper, server, modelName, color, imported, importRes,
                 shapes, names, base, passes, iter,
                 reflattens, calls, pending, tmp, tmpAcquired, jsFile, jsText,
                 data, outFile, outWrites>>

\* from ocp_tessellate.convert import export_three_cad_viewer_js
ImportExporter ==
  /\ pc = "tessellate"
  /\ IF tessOk THEN pc' = "import" /\ UNCHANGED <<err, exit>>
     ELSE Raise(PlainError("NoTessellate"))
  /\ UNCHANGED <<env, helper, server, modelName, color, backend, imported, importRes, shapes,
                 names, base,
                 passes, iter, reflattens, calls, pending, tmp, tmpAcquired,
                 jsFile, jsText, data, outFile, outWrites>>

\* shapes_obj = importer(input_path); _to_sequence; _normalize_cad_objects
ImportShapes ==
  /\ pc = "import"
  /\ \E r \in ImportResults :
       /\ importRes' = r
       /\ imported' = TRUE
       /\ IF r.mode = "raise"
            THEN Raise(PlainError("Import")) /\ shapes' = shapes
            ELSE /\ shapes' = NormalizeCadObjects(ToSequence(r))
                 /\ pc' = "flatten"
                 /\ UNCHANGED <<err, exit>>
  /\ UNCHANGED <<env, helper, server, modelName, color, backend, names, base, passes, iter,
                 reflattens, calls,
                 pending, tmp, tmpAcquired, jsFile, jsText, data, outFile,
                 outWrites>>

\* one iteration of `for _ in range(5)`, or the loop's end
FlattenLoop ==
  /\ pc = "flatten"
  /\ IF LoopContinues(ocpOk, iter, shapes)
       THEN /\ shapes' = FlattenShapes(ocpOk, shapes)
            /\ passes' = passes + 1
            /\ iter' = iter + 1
            /\ pc' = pc
       ELSE /\ pc' = "check"
            /\ UNCHANGED <<shapes, passes, iter>>
  /\ UNCHANGED <<env, helper, server, modelName, color, backend, imported, importRes, names,
                 base, reflattens,
                 calls, pending, tmp, tmpAcquired, jsFile, jsText, data,
                 outFile, outWrites, err, exit>>

\* if not shapes: raise; base = model_name or the stem of input_path
CheckEmpty ==
  /\ pc = "check"
  /\ IF shapes = <<>>
       THEN Raise(PlainError("EmptyInput")) /\ UNCHANGED <<base, modelName>>
       ELSE /\ \E m \in ModelNames :
                 /\ modelName' = m
                 /\ base' = (IF m # "" THEN m ELSE "stem")
            /\ pc' = "tempdir"
            /\ UNCHANGED <<err, exit>>
  /\ UNCHANGED <<env, helper, server, color, backend, imported, importRes, shapes, names, passes,
                 iter, reflattens, calls, pending, tmp, tmpAcquired, jsFile,
                 jsText, data, outFile, outWrites>>

\* with tempfile.TemporaryDirectory() as td: js_path, names
EnterTemp ==
  /\ pc = "tempdir"
  /\ tmp' = "exists"
  /\ tmpAcquired' = tmpAcquired + 1
  /\ names' = NamesFor(base, shapes)
  /\ pc' = "call_tol"
  /\ UNCHANGED <<env, helper, server, modelName, color, backend, imported, importRes, shapes,
                 base, passes,
                 iter, reflattens, calls, pending, jsFile, jsText, data,
                 outFile, outWrites, err, exit>>

\* the exporter called with angular_tolerance and linear_tolerance
CallWithTolerance ==
  /\ pc = "call_tol"
  /\ \E o \in ExporterOutcomes :
       /\ calls' = Append(calls, Invocation(TRUE, o))
       /\ IF o.res = "ok"
         THEN /\ pc' = "read"
              /\ jsFile' = (IF o.wrote THEN o.text ELSE jsFile)
              /\ pending' = pending
         ELSE IF IsInterfaceMismatch(o)
           THEN pc' = "call_fallback" /\ UNCHANGED <<jsFile, pending>>
           ELSE /\ pc' = "handler"
                /\ pending' = ExporterError(o)
                /\ jsFile' = jsFile
  /\ UNCHANGED <<env, helper, server, modelName, color, backend, imported, importRes, shapes,
                 names, base,
                 passes, iter, reflattens, tmp, tmpAcquired, jsText, data,
                 outFile, outWrites, err, exit>>

\* except TypeError: the exporter called without the tolerance keywords
CallFallback ==
  /\ pc = "call_fallback"
  /\ \E o \in ExporterOutcomes :
       /\ calls' = Append(calls, Invocation(FALSE, o))
       /\ IF o.res = "ok"
         THEN /\ pc' = "read"
              /\ jsFile' = (IF o.wrote THEN o.text ELSE jsFile)
              /\ pending' = pending
         ELSE /\ pc' = "handler"
              /\ pending' = ExporterError(o)
              /\ jsFile' = jsFile
  /\ UNCHANGED <<env, helper, server, modelName, color, backend, imported, importRes, shapes,
                 names, base,
                 passes, iter, reflattens, tmp, tmpAcquired, jsText, data,
                 outFile, outWrites, err, exit>>

\* except Exception as e: explode and retry once, or re-raise
Handler ==
  /\ pc = "handler"
  /\ IF IsCompoundRejection(pending) /\ RetryShapes(ocpOk, shapes) # <<>>
       THEN /\ shapes' = RetryShapes(ocpOk, shapes)
            /\ names' = RetryNames(base, names, RetryShapes(ocpOk, shapes))
            /\ reflattens' = reflattens + 1
            /\ pc' = "retry_tol"
            /\ UNCHANGED <<tmp, jsFile, err, exit>>
       ELSE /\ RaiseInTemp(pending)
            /\ UNCHANGED <<shapes, names, reflattens>>
  /\ UNCHANGED <<env, helper, server, modelName, color, backend, imported, importRes, base,
                 passes, iter, calls,
                 pending, tmpAcquired, jsText, data, outFile, outWrites>>

\* the retry's call with the tolerance keywords
RetryWithTolerance ==
  /\ pc = "retry_tol"
  /\ \E o \in ExporterOutcomes :
       /\ calls' = Append(calls, Invocation(TRUE, o))
       /\ IF o.res = "ok"
         THEN /\ pc' = "read"
              /\ jsFile' = (IF o.wrote THEN o.text ELSE jsFile)
              /\ UNCHANGED <<pending, tmp, err, exit>>
         ELSE IF IsInterfaceMismatch(o)
           THEN pc' = "retry_fallback" /\ UNCHANGED <<jsFile, pending, tmp, err, exit>>
           ELSE IF AfterRetryError = "failed"
             THEN RaiseInTemp(ExporterError(o)) /\ pending' = pending
             ELSE /\ pc' = AfterRetryError
                  /\ pending' = ExporterError(o)
                  /\ UNCHANGED <<jsFile, tmp, err, exit>>
  /\ UNCHANGED <<env, helper, server, modelName, color, backend, imported, importRes, shapes,
                 names, base,
                 passes, iter, reflattens, tmpAcquired, jsText, data, outFile,
                 outWrites>>

\* the retry's call without the tolerance keywords
RetryFallback ==
  /\ pc = "retry_fallback"
  /\ \E o \in ExporterOutcomes :
       /\ calls' = Append(calls, Invocation(FALSE, o))
       /\ IF o.res = "ok"
         THEN /\ pc' = "read"
              /\ jsFile' = (IF o.wrote THEN o.text ELSE jsFile)
              /\ UNCHANGED <<pending, tmp, err, exit>>
         ELSE IF AfterRetryError = "failed"
           THEN RaiseInTemp(ExporterError(o)) /\ pending' = pending
           ELSE /\ pc' = AfterRetryError
                /\ pending' = ExporterError(o)
                /\ UNCHANGED <<jsFile, tmp, err, exit>>
  /\ UNCHANGED <<env, helper, server, modelName, color, backend, imported, importRes, shapes,
                 names, base,
                 passes, iter, reflattens, tmpAcquired, jsText, data, outFile,
                 outWrites>>

\* with open(js_path) as f: js_text = f.read(); the `with` block ends
ReadJs ==
  /\ pc = "read"
  /\ IF jsFile = NoFile
       THEN RaiseInTemp(PlainError("Read")) /\ jsText' = jsText
       ELSE /\ jsText' = jsFile
            /\ tmp' = TempDirExit(FALSE)
            /\ jsFile' = (IF TempDirExit(FALSE) = "deleted" THEN NoFile ELSE jsFile)
            /\ pc' = "parse"
            /\ UNCHANGED <<err, exit>>
  /\ UNCHANGED <<env, helper, server, modelName, color, backend, imported, importRes, shapes,
                 names, base,
                 passes, iter, reflattens, calls, pending, tmpAcquired, data,
                 outFile, outWrites>>

\* data = _parse_js_object_literal(js_text)
Parse ==
  /\ pc = "parse"
  /\ IF Parsed[jsText].ok
       THEN /\ data' = Parsed[jsText].doc
            /\ pc' = "post"
            /\ UNCHANGED <<err, exit>>
       ELSE Raise(PlainError("Parse")) /\ data' = data
  /\ UNCHANGED <<env, helper, server, modelName, color, backend, imported, importRes, shapes,
                 names, base,
                 passes, iter, reflattens, calls, pending, tmp, tmpAcquired,
                 jsFile, jsText, outFile, outWrites>>

\* the color override, then json.dump to output_path; return data, and main()
\* prints and returns
PostAndWrite ==
  /\ pc = "post"
  /\ \E c \in Colors :
       /\ color' = c
       /\ data' = OverrideColor(data, c)
       /\ outFile' = OverrideColor(data, c)
  /\ outWrites' = outWrites + 1
  /\ pc' = "done"
  /\ exit' = MainReturn(FALSE)
  /\ UNCHANGED <<env, helper, server, modelName, backend, imported, importRes, shapes, names, base,
                 passes, iter, reflattens, calls, pending, tmp, tmpAcquired,
                 jsFile, jsText, err>>

Next ==
  \/ Resolve
  \/ ImportExporter
  \/ ImportShapes
  \/ FlattenLoop
  \/ CheckEmpty
  \/ EnterTemp
  \/ CallWithTolerance
  \/ CallFallback
  \/ Handler
  \/ RetryWithTolerance
  \/ RetryFallback
  \/ ReadJs
  \/ Parse
  \/ PostAndWrite

Spec == Init /\ [][Next]_vars

\* ------------------------------------ the helper functions on their own
\* convert_step_to_json at rest: no conversion is running
AtRest ==
  /\ pc = "rest"
  /\ b3dOk = FALSE /\ cqOk = FALSE /\ tessOk = FALSE /\ ocpOk = FALSE
  /\ modelName = "" /\ color = <<>>
  /\ backend = "none"
  /\ imported = FALSE
  /\ importRes = [mode |-> "none", val |-> <<>>]
  /\ shapes = <<>> /\ names = <<>> /\ base = ""
  /\ passes = 0 /\ iter = 0 /\ reflattens = 0
  /\ calls = <<>>
  /\ pending = NoError
  /\ tmp = "none" /\ tmpAcquired = 0
  /\ jsFile = NoFile /\ jsText = NoFile /\ data = NoDoc
  /\ outFile = "absent" /\ outWrites = 0
  /\ err = NoError
  /\ exit = NotReturned

\* the documents the color override is applied to on its own: what the parser
\* returns for its texts
UnitDocs ==
  {ParseJsObjectLiteral(t).doc : t \in {x \in ParserTexts : ParseJsObjectLiteral(x).ok}}

UnitColors == Colors \cup {<<"#", "f", "f", "f">>}

\* the arguments the helper functions are applied to (given: whether a color
\* was passed at all; the color passed may be the empty string)
UnitInputs ==
  {[unit |-> "resolve", arg |-> [b3d |-> b, cq |-> c]] : b, c \in BOOLEAN}
    \cup {[unit |-> "normalize", arg |-> q] :
            q \in SeqsUpTo(Handles \cup StubHandles, MaxLen)}
    \cup {[unit |-> "explode", arg |-> [ocp |-> o, shape |-> h]] :
            o \in BOOLEAN, h \in Handles \cup StubHandles}
    \cup {[unit |-> u, arg |-> [ocp |-> o, shapes |-> q]] :
            u \in {"flatten", "recover", "loop"}, o \in BOOLEAN,
            q \in SeqsUpTo(Handles \cup StubHandles, MaxLen)}
    \cup {[unit |-> "parse", arg |-> t] : t \in ParserTexts}
    \cup {[unit |-> "generate", arg |-> r] : r \in Resumes}
    \cup {[unit |-> "ensure", arg |-> a] : a \in EnsureInputs}
    \cup {[unit |-> "postprocess", arg |-> [doc |-> d, color |-> c, given |-> TRUE]] :
            d \in UnitDocs, c \in UnitColors}
    \cup {[unit |-> "postprocess", arg |-> [doc |-> d, color |-> <<>>, given |-> FALSE]] :
            d \in UnitDocs}

InitUnit ==
  /\ AtRest
  /\ ServerAtRest
  /\ \E u \in UnitInputs :
       /\ unit = u.unit
       /\ input = u.arg
       /\ output = IF u.unit = "loop" THEN <<0, u.arg.shapes>> ELSE <<>>
  /\ returned = FALSE

Return(value) ==
  /\ ~returned
  /\ output' = value
  /\ returned' = TRUE
  /\ UNCHANGED <<unit, input, server>>
  /\ UNCHANGED <<pc, env, modelName, color, backend, imported, importRes,
                 shapes, names, base, passes, iter, reflattens, calls, pending,
                 tmp, tmpAcquired, jsFile, jsText, data, outFile, outWrites,
                 err, exit>>

\* _try_import_builders()
ApplyResolve ==
  /\ unit = "resolve"
  /\ Return(TryImportBuilders(input.b3d, input.cq))

\* _normalize_cad_objects(shapes)
ApplyNormalize ==
  /\ unit = "normalize"
  /\ Return(NormalizeCadObjects(input))

\* _explode_compound_to_supported(shape)
ApplyExplode ==
  /\ unit = "explode"
  /\ Return(ExplodeCompoundToSupported(input.ocp, input.shape))

\* _flatten_shapes(shapes)
ApplyFlatten ==
  /\ unit = "flatten"
  /\ Return(FlattenShapes(input.ocp, input.shapes))

\* the recovery pass of convert_step_to_json over current_shapes
ApplyRecover ==
  /\ unit = "recover"
  /\ Return(RetryShapes(input.ocp, input.shapes))

\* one iteration of `for _ in range(5)` of convert_step_to_json that
\* flattens: output holds the iterations made and the shapes
ApplyLoopPass ==
  /\ unit = "loop" /\ ~returned
  /\ output[1] <= FlattenPasses
  /\ LoopContinues(input.ocp, output[1], output[2])
  /\ output' = <<output[1] + 1, FlattenShapes(input.ocp, output[2])>>
  /\ UNCHANGED <<unit, input, returned, server>>
  /\ UNCHANGED <<pc, env, modelName, color, backend, imported, importRes,
                 shapes, names, base, passes, iter, reflattens, calls, pending,
                 tmp, tmpAcquired, jsFile, jsText, data, outFile, outWrites,
                 err, exit>>

\* the loop is left, by `break` or by the end of range(5)
ApplyLoopExit ==
  /\ unit = "loop"
  /\ ~LoopContinues(input.ocp, output[1], output[2])
  /\ Return(output)

\* generate_page_from_template()
ApplyGenerate ==
  /\ unit = "generate"
  /\ Return(GeneratePage(input))

\* ensure_page_exists(force)
ApplyEnsure ==
  /\ unit = "ensure"
  /\ Return(EnsurePageExists(input.fs, input.force))

\* _parse_js_object_literal(text)
ApplyParse ==
  /\ unit = "parse"
  /\ Return(ParseJsObjectLiteral(input))

\* the color override of convert_step_to_json
ApplyPostprocess ==
  /\ unit = "postprocess"
  /\ Return(OverrideColor(input.doc, input.color))

NextUnit ==
  \/ ApplyResolve
  \/ ApplyNormalize
  \/ ApplyExplode
  \/ ApplyFlatten
  \/ ApplyRecover
  \/ ApplyLoopPass
  \/ ApplyLoopExit
  \/ ApplyParse
  \/ ApplyGenerate
  \/ ApplyEnsure
  \/ ApplyPostprocess

SpecUnit == InitUnit /\ [][NextUnit]_vars

\* ------------------------------------------------ the development server
conversion ==
  <<pc, env, modelName, color, backend, imported, importRes, shapes, names,
    base, passes, iter, reflattens, calls, pending, tmp, tmpAcquired, jsFile,
    jsText, data, outFile, outWrites, err, exit>>

\* ThreadingHTTPServer over a tree, before any request
InitServer ==
  /\ AtRest
  /\ unit = "none" /\ input = <<>> /\ output = <<>> /\ returned = FALSE
  /\ site \in Sites
  /\ handler = [t \in Threads |-> Idle]

\* the thread t sends its response, or ends without one
Respond(t, r) ==
  handler' = [handler EXCEPT ![t].pc = "done", ![t].response = r]

Goto(t, label) ==
  handler' = [handler EXCEPT ![t].pc = label]

\* a request is handed to a thread of its own
Accept(t) ==
  /\ handler[t].pc = "idle"
  /\ \E r \in Requests :
       handler' = [handler EXCEPT ![t].pc = "get", ![t].request = r, ![t].path = r]
  /\ UNCHANGED <<site, conversion, helper>>

\* do_GET: the favicon, and the first find_newest_page() of "/" and
\* "/index.html"
Route(t) ==
  /\ handler[t].pc = "get"
  /\ LET newest == FindNewestPage(site.pages, site.listing)
     IN  IF handler[t].request = Favicon
           THEN Respond(t, [status |-> 204, via |-> "favicon", file |-> <<>>,
                            body |-> "none"])
         ELSE IF handler[t].request \in Routed
           THEN IF newest = 0 THEN Goto(t, "ensure")
                ELSE handler' = [handler EXCEPT ![t].pc = "static",
                                                ![t].path = PageRequest(newest)]
         ELSE Goto(t, "static")
  /\ UNCHANGED <<site, conversion, helper>>

\* ensure_page_exists() of do_GET up to generate_page_from_template's
\* reading of the template; FileNotFoundError leaves do_GET
EnsureCheck(t) ==
  /\ handler[t].pc = "ensure"
  /\ LET decided == EnsurePageExists(site, FALSE)
     IN  IF decided.raised
           THEN Respond(t, [status |-> 0, via |-> "raised", file |-> <<>>,
                            body |-> "none"])
         ELSE IF decided.generated THEN Goto(t, "open")
         ELSE Goto(t, "refind")
  /\ UNCHANGED <<site, conversion, helper>>

\* out_name = timestamp_name(); open(out_path, "w"): the page is created, or
\* cut to nothing when a page of this second is there
OpenPage(t) ==
  /\ handler[t].pc = "open"
  /\ site' = [site EXCEPT !.clock = @ + 1,
                          !.pages[site.stamp] =
                             [exists |-> TRUE, mtime |-> site.clock + 1,
                              content |-> "empty"]]
  /\ handler' = [handler EXCEPT ![t].pc = "write", ![t].out = site.stamp]
  /\ UNCHANGED <<conversion, helper>>

\* f.write(html) and the close of the file
WritePage(t) ==
  /\ handler[t].pc = "write"
  /\ site' = [site EXCEPT !.clock = @ + 1,
                          !.pages[handler[t].out] =
                             [exists |-> TRUE, mtime |-> site.clock + 1,
                              content |-> "clean"]]
  /\ Goto(t, "refind")
  /\ UNCHANGED <<conversion, helper>>

\* newest = find_newest_page() after ensure_page_exists()
Refind(t) ==
  /\ handler[t].pc = "refind"
  /\ LET newest == FindNewestPage(site.pages, site.listing)
     IN  handler' = [handler EXCEPT ![t].pc = "static",
                       ![t].path = IF newest = 0 THEN @ ELSE PageRequest(newest)]
  /\ UNCHANGED <<site, conversion, helper>>

\* the compressing branch: a file under the root by the text of its path,
\* of a compressible kind, is read and sent
ServeStatic(t) ==
  /\ handler[t].pc = "static"
  /\ LET fs_path == AbsPath(Root, handler[t].path)
     IN  IF /\ PathStartsWith(PathString(fs_path), PathString(Root))
            /\ IsFile(fs_path, site.pages)
            /\ Ext(fs_path) \in {".html", ".htm", ".css", ".js", ".mjs", ".json", ".svg"}
           THEN Respond(t, [status |-> 200, via |-> "compress", file |-> fs_path,
                            body |-> ReadFile(fs_path, site.pages)])
         ELSE Goto(t, "default")
  /\ UNCHANGED <<site, conversion, helper>>

\* super().do_GET()
ServeDefault(t) ==
  /\ handler[t].pc = "default"
  /\ LET path == TranslatePath(handler[t].path)
     IN  IF IsFile(path, site.pages)
           THEN Respond(t, [status |-> 200, via |-> "default", file |-> path,
                            body |-> ReadFile(path, site.pages)])
         ELSE Respond(t, [status |-> 404, via |-> "default", file |-> <<>>,
                          body |-> "none"])
  /\ UNCHANGED <<site, conversion, helper>>

\* the clock reaches the next second
Tick ==
  /\ site.stamp = 2
  /\ site' = [site EXCEPT !.stamp = 3]
  /\ UNCHANGED <<handler, conversion, helper>>

NextServer ==
  \/ \E t \in Threads : Accept(t)
  \/ \E t \in Threads : Route(t)
  \/ \E t \in Threads : EnsureCheck(t)
  \/ \E t \in Threads : OpenPage(t)
  \/ \E t \in Threads : WritePage(t)
  \/ \E t \in Threads : Refind(t)
  \/ \E t \in Threads : ServeStatic(t)
  \/ \E t \in Threads : ServeDefault(t)
  \/ Tick

SpecServer == InitServer /\ [][NextServer]_vars

\* ------------------------------------------------------------ claims
Terminal == pc \in {"done", "failed"}

\* the true topological kind of a handle
KindOf(h) == Kind(Wrapped(h))

\* the exporter returned and left its text at js_path
Succeeded(c) == c.out.res = "ok" /\ c.out.wrote

\* convert went on from the export step to parsing
ReachedParsing ==
  \/ pc \in {"read", "parse", "post", "done"}
  \/ pc = "failed" /\ err.kind = "Parse"

\* the handle reports its own kind: classification is reliable for it
ReportsKind(h) == ShapeTypeOf(Wrapped(h)) = KindOf(h)

\* C1: at every invocation of the exporter, no element of the shape sequence
\* passed to it is of kind Compound or CompSolid.  Stated for the conversions
\* in which nothing excuses a compound: the OCP utilities are importable, the
\* pre-export loop ended before its 5th pass, and every element passed
\* reports its kind.
C1_NoCompoundAtExport ==
  (ocpOk /\ passes < 5)
  => \A k \in 1..Len(calls) : \A i \in 1..Len(calls[k].shapes) :
       ReportsKind(calls[k].shapes[i])
       => KindOf(calls[k].shapes[i]) \notin {"Compound", "CompSolid"}

C3_NamesMatchShapes ==
  \A k \in 1..Len(calls) :
    /\ Len(calls[k].names) = Len(calls[k].shapes)
    /\ \A i \in 1..Len(calls[k].shapes) :
         calls[k].names[i] = <<calls[k].base, i - 1>>

\* a retry whose sequence differs in length from the first attempt's
C3_Witness ==
  /\ Len(calls) >= 2
  /\ calls[Len(calls)].retry = 1
  /\ Len(calls[Len(calls)].shapes) # Len(calls[1].shapes)

\* C4: one convert call makes at most one recovery pass, tries each calling
\* convention at most once before it and once after it (at most 4 invocations),
\* and an exporter error that ends the retry is the error convert raises.
C4_OneRetryCycle ==
  /\ reflattens <= 1
  /\ Len(calls) <= 4
  /\ \A r \in {0, 1}, t \in BOOLEAN :
       Cardinality({k \in 1..Len(calls) : calls[k].retry = r /\ calls[k].tol = t}) <= 1
  /\ \A k \in 1..Len(calls) : calls[k].retry = 1 => reflattens = 1
  /\ \A k \in 1..Len(calls) :
       (/\ calls[k].retry = 1
        /\ calls[k].out.res = "raise"
        /\ ~(calls[k].tol /\ calls[k].out.cls = "TypeError"))
       => (/\ k = Len(calls)
           /\ pc = "failed"
           /\ err.kind = "Exporter" /\ err.call = k)

\* both calls of the retry were made and the last one failed
C4_Witness ==
  /\ Len(calls) = 4
  /\ pc = "failed"
  /\ err.call = 4

\* C5 as stated: an exporter that raises a Compound error on its first call and
\* succeeds on its second is invoked twice, the second time after the recovery
\* pass with the re-flattened sequence, and convert goes on to parsing.
C5_RetryOnce ==
  (/\ Len(calls) >= 2
   /\ calls[1].out.res = "raise" /\ calls[1].out.compound
   /\ Succeeded(calls[2]))
  => (/\ Len(calls) = 2
      /\ ReachedParsing
      /\ calls[2].retry = 1
      /\ calls[2].shapes = FlattenShapes(ocpOk, calls[1].shapes))

\* C5, amended: the same for a Compound error that is not a TypeError; after
\* a TypeError the second invocation is the fallback without tolerances, with
\* the sequence of the first.
C5_RetryOnceNotTypeError ==
  (/\ Len(calls) >= 2
   /\ calls[1].out.res = "raise" /\ calls[1].out.compound
   /\ Succeeded(calls[2]))
  => (/\ Len(calls) = 2
      /\ ReachedParsing
      /\ IF calls[1].out.cls # "TypeError"
           THEN /\ calls[2].retry = 1
                /\ calls[2].tol
                /\ calls[2].shapes = FlattenShapes(ocpOk, calls[1].shapes)
           ELSE /\ calls[2].retry = 0
                /\ ~calls[2].tol
                /\ calls[2].shapes = calls[1].shapes)

\* the retry succeeded with a sequence the recovery pass changed
C5_Witness ==
  /\ Len(calls) = 2
  /\ calls[1].out.res = "raise" /\ calls[1].out.compound
  /\ calls[1].out.cls # "TypeError"
  /\ Succeeded(calls[2])
  /\ calls[2].shapes # calls[1].shapes
  /\ pc = "parse"

\* C6: a with-tolerance call the exporter answers with TypeError is followed by
\* a call with the same base, shapes, names and path and no tolerances, and
\* that TypeError is never the error convert raises.
C6_FallbackWithoutTolerance ==
  /\ \A k \in 1..Len(calls) :
       (calls[k].tol /\ calls[k].out.res = "raise" /\ calls[k].out.cls = "TypeError")
       => IF k = Len(calls)
            THEN pc \in {"call_fallback", "retry_fallback"}
            ELSE /\ ~calls[k + 1].tol
                 /\ calls[k + 1].base = calls[k].base
                 /\ calls[k + 1].shapes = calls[k].shapes
                 /\ calls[k + 1].names = calls[k].names
                 /\ calls[k + 1].path = calls[k].path
  /\ (pc = "failed" /\ err.kind = "Exporter")
       => ~(calls[err.call].tol /\ calls[err.call].out.cls = "TypeError")

\* the fallback was called after a TypeError and failed in its turn
C6_Witness ==
  /\ Len(calls) = 2
  /\ calls[1].tol /\ calls[1].out.cls = "TypeError"
  /\ ~calls[2].tol
  /\ pc = "failed" /\ err.call = 2

\* C7: without an import backend, or without the exporter, convert fails with
\* a dependency error; the file is not imported, the exporter is not invoked
\* and the output is not written.
C7_DependencyError ==
  (~(b3dOk \/ cqOk) \/ ~tessOk)
  => (/\ ~imported
      /\ calls = <<>>
      /\ outWrites = 0 /\ outFile = "absent"
      /\ \/ pc \in {"start", "tessellate"}
         \/ pc = "failed" /\ err.kind \in {"NoImporter", "NoTessellate"}
      /\ (pc = "failed" /\ ~(b3dOk \/ cqOk)) => err.kind = "NoImporter")

\* a backend is there and the exporter is not
C7_Witness ==
  pc = "failed" /\ err.kind = "NoTessellate" /\ (b3dOk \/ cqOk)

\* C8: convert raises the empty-input error exactly when the sequence left by
\* import, normalization and flattening is empty, as it is when the backend
\* returns nothing or an empty sequence; the exporter is then never invoked
\* and the output never written.
C8_EmptyInput ==
  /\ [](/\ err.kind = "EmptyInput"
             => (/\ pc = "failed" /\ shapes = <<>>
                 /\ calls = <<>> /\ tmp = "none"
                 /\ outWrites = 0 /\ outFile = "absent")
        /\ (imported /\ importRes.mode # "raise" /\ importRes.val = <<>>)
             => \/ pc \in {"flatten", "check"}
                \/ pc = "failed" /\ err.kind = "EmptyInput")
  /\ [][/\ pc = "check" => ((shapes = <<>>) <=> (err'.kind = "EmptyInput"))
        /\ (err'.kind = "EmptyInput" /\ err.kind # "EmptyInput") => pc = "check"]_vars

\* the importer returned None
C8_Witness ==
  pc = "failed" /\ err.kind = "EmptyInput" /\ importRes.mode = "none"

\* the texts among ParserTexts that are not a JavaScript object literal
Malformed ==
  {NoOpenText, NoCloseText, ReversedText, SingleQuoteText, ColonInStringText,
   <<>>}

\* C9: a failing convert leaves the output path alone; the output is written
\* once, after import, flattening, export and parsing have succeeded.
C9_OutputOnlyOnSuccess ==
  /\ outWrites <= 1
  /\ pc = "failed" => (outWrites = 0 /\ outFile = "absent")
  /\ outWrites = 0 => outFile = "absent"
  /\ outWrites = 1
       => (/\ pc = "done" /\ err = NoError
           /\ imported /\ importRes.mode # "raise"
           /\ pc \notin {"flatten", "check"} /\ shapes # <<>>
           /\ calls # <<>> /\ Succeeded(calls[Len(calls)])
           /\ jsText \notin Malformed
           /\ outFile = data)

\* the output was written after a recovery pass
C9_Witness ==
  pc = "done" /\ outWrites = 1 /\ reflattens = 1

\* C10: once convert has returned or raised, the temporary directory is gone;
\* one directory is acquired at most and every invocation, the retry's too,
\* is given the same path in it.
C10_TempDirReleased ==
  /\ Terminal => tmp # "exists"
  /\ pc \in {"parse", "post"} => tmp = "deleted"
  /\ tmpAcquired <= 1
  /\ calls # <<>> => tmpAcquired = 1
  /\ \A k \in 1..Len(calls) : calls[k].path = calls[1].path

\* the retry failed, in the directory of the first attempt
C10_Witness ==
  /\ pc = "failed" /\ tmp = "deleted"
  /\ reflattens = 1
  /\ tmpAcquired = 1

\* two documents differ at most in the values of the `color` field of the
\* parts that have one
SameButColors(before, after) ==
  IF before.t # "obj" THEN after = before
  ELSE
    /\ after.t = "obj"
    /\ DOMAIN after.v = DOMAIN before.v
    /\ \A k \in DOMAIN before.v \ {PartsKey} : after.v[k] = before.v[k]
    /\ PartsKey \in DOMAIN before.v
         => LET old == before.v[PartsKey]
                new == after.v[PartsKey]
            IN  IF old.t # "arr" THEN new = old
                ELSE /\ new.t = "arr"
                     /\ Len(new.v) = Len(old.v)
                     /\ \A i \in 1..Len(old.v) :
                          IF old.v[i].t # "obj" THEN new.v[i] = old.v[i]
                          ELSE /\ new.v[i].t = "obj"
                               /\ DOMAIN new.v[i].v = DOMAIN old.v[i].v
                               /\ \A k \in DOMAIN old.v[i].v \ {ColorKey} :
                                    new.v[i].v[k] = old.v[i].v[k]

\* C11: for every parsed document and color, the document after the color
\* override has the same fields, the same parts in the same order, every part
\* the same fields (a part without `color` still has none), and every value
\* but the `color` of a part that had one is what it was.
C11_OverrideChangesOnlyColors ==
  (unit = "postprocess" /\ returned) => SameButColors(input.doc, output)

\* the override changed a document with a colored and an uncolored part
C11_Witness ==
  /\ unit = "postprocess" /\ returned
  /\ input.doc = ParseJsObjectLiteral(ViewerText).doc
  /\ input.color # <<>>
  /\ output # input.doc

\* { name: "a", parts: [ {color: "#fff",}, ], }
LiteralStripped ==
  <<"{", " ", "n", "a", "m", "e", ":", " ", "\"", "a", "\"", ",", " ", "p",
    "a", "r", "t", "s", ":", " ", "[", " ", "{", "c", "o", "l", "o", "r",
    ":", " ", "\"", "#", "f", "f", "f", "\"", ",", "}", ",", " ", "]", ",",
    " ", "}">>

\* { "name": "a", "parts": [ {"color": "#fff",}, ], }
LiteralQuoted ==
  <<"{", " ", "\"", "n", "a", "m", "e", "\"", ":", " ", "\"", "a", "\"",
    ",", " ", "\"", "p", "a", "r", "t", "s", "\"", ":", " ", "[", " ", "{",
    "\"", "c", "o", "l", "o", "r", "\"", ":", " ", "\"", "#", "f", "f",
    "f", "\"", ",", "}", ",", " ", "]", ",", " ", "}">>

\* { "name": "a", "parts": [ {"color": "#fff"}]}
LiteralStrict ==
  <<"{", " ", "\"", "n", "a", "m", "e", "\"", ":", " ", "\"", "a", "\"",
    ",", " ", "\"", "p", "a", "r", "t", "s", "\"", ":", " ", "[", " ", "{",
    "\"", "c", "o", "l", "o", "r", "\"", ":", " ", "\"", "#", "f", "f",
    "f", "\"", "}", "]", "}">>

\* {"name": "a", "parts": [{"color": "#fff"}]}
LiteralDoc ==
  [t |-> "obj",
   v |-> (<<"n", "a", "m", "e">> :> [t |-> "str", v |-> <<"a">>])
         @@ (PartsKey :>
               [t |-> "arr",
                v |-> <<[t |-> "obj",
                         v |-> (ColorKey :>
                                  [t |-> "str", v |-> <<"#", "f", "f", "f">>])]>>])]

\* C12: parsing `var x = { name: "a", parts: [ {color: "#fff",}, ], };` yields
\* the document {"name": "a", "parts": [{"color": "#fff"}]}; on the way the
\* prologue and the terminator are stripped, then the bare keys are quoted,
\* then the commas before `}` and `]` are removed.
C12_ParsesLiteral ==
  (unit = "parse" /\ returned /\ input = LiteralText)
  => (/\ output = [ok |-> TRUE, doc |-> LiteralDoc]
      /\ StripTerminator(StripPrologue(Strip(input))) = LiteralStripped
      /\ SliceObject(LiteralStripped) = [ok |-> TRUE, src |-> LiteralStripped]
      /\ QuoteKeys(LiteralStripped) = LiteralQuoted
      /\ DropTrailingCommas(LiteralQuoted) = LiteralStrict
      /\ JsonLoads(LiteralStrict) = [ok |-> TRUE, doc |-> LiteralDoc])

\* the literal text was parsed
C12_Witness ==
  /\ unit = "parse" /\ returned
  /\ input = LiteralText
  /\ output.ok

\* the import function that belongs to a backend id
ImporterOf(b) ==
  CASE b = "build123d" -> "_import_step_b3d"
    [] b = "cadquery"  -> "_import_step_cq"
    [] OTHER           -> "none"

\* C15: the resolver returns build123d whenever its probe succeeds, whatever
\* the cadquery probe says; cadquery exactly when the build123d probe fails and
\* the cadquery probe succeeds; (None, None) exactly when both fail; and the
\* import function returned is the one of the backend id returned.
C15_ResolverPriority ==
  (unit = "resolve" /\ returned)
  => (/\ input.b3d => output.backend = "build123d"
      /\ (output.backend = "cadquery") <=> (~input.b3d /\ input.cq)
      /\ (output.backend = "none") <=> (~input.b3d /\ ~input.cq)
      /\ output.backend \in {"build123d", "cadquery", "none"}
      /\ output.importer = ImporterOf(output.backend))

\* both probes succeed and build123d is returned
C15_Witness ==
  /\ unit = "resolve" /\ returned
  /\ input.b3d /\ input.cq
  /\ output.backend = "build123d"

\* C13 as stated: every element with an `objects` container is replaced by
\* the contents of the container, in order and one level deep; an element
\* whose container is empty contributes nothing.
C13_ObjectsReplaceElement ==
  (unit = "normalize" /\ returned)
  => output = Extend([i \in 1..Len(input) |->
                        IF HasObjects(input[i]) THEN Objects(input[i])
                        ELSE NormalizeCadObjects(<<input[i]>>)])

\* C13, amended: every element with a non-empty `objects` container is
\* replaced by the contents of the container, in order and one level deep; an
\* element whose container is empty is not replaced by it: it is treated as an
\* element without the attribute, and stays in the output as itself when it
\* has no solid enumeration either.
C13_NonEmptyObjectsReplaceElement ==
  (unit = "normalize" /\ returned)
  => (/\ output = Extend([i \in 1..Len(input) |->
                            NormalizeCadObjects(<<input[i]>>)])
      /\ \A i \in 1..Len(input) :
           /\ (HasObjects(input[i]) /\ Objects(input[i]) # <<>>)
                => NormalizeCadObjects(<<input[i]>>) = Objects(input[i])
           /\ (/\ HasObjects(input[i]) /\ Objects(input[i]) = <<>>
               /\ UpperSolids(input[i]).mode = "absent"
               /\ LowerSolids(input[i]).mode = "absent")
                => NormalizeCadObjects(<<input[i]>>) = <<input[i]>>)

\* a workplane holding a workplane, next to an empty workplane
C13_Witness ==
  /\ unit = "normalize" /\ returned
  /\ input = <<14, 13>>
  /\ output = <<10, 1, 13>>

\* a solid enumeration of the handle is called by normalization and raises
Throws(h) ==
  /\ Objects(h) = <<>>
  /\ \/ UpperSolids(h).mode = "raise"
     \/ /\ ~(UpperSolids(h).mode = "ok" /\ UpperSolids(h).val # <<>>)
        /\ LowerSolids(h).mode = "raise"

\* C14: an element one of whose solid enumerations raises during
\* normalization appears in the output once, as itself, where it stood, and
\* the other elements are normalized as they are without it.
C14_RaisingEnumerationKeepsElement ==
  (unit = "normalize" /\ returned)
  => output = Extend([i \in 1..Len(input) |->
                        IF Throws(input[i]) THEN <<input[i]>>
                        ELSE NormalizeCadObjects(<<input[i]>>)])

\* .Solids() raises on the first element, the second is expanded
C14_Witness ==
  /\ unit = "normalize" /\ returned
  /\ input = <<15, 11>>
  /\ output = <<15, 1, 2>>

\* C16 as stated: when the OCP utilities cannot be imported, no element is
\* classified as a compound.
C16_NoOcpNoCompound ==
  ~ocpOk => \A i \in 1..Len(shapes) : ~LooksLikeCompound(ocpOk, shapes[i])

\* C16, amended: when the OCP utilities cannot be imported, an element is
\* classified as a compound exactly when the type of its raw shape is named
\* TopoDS_Compound; flattening returns every element as it is, in a sequence
\* of one; every invocation of the exporter is given the normalized sequence;
\* and convert does not fail between normalization and the first invocation
\* unless that sequence is empty.
C16_NoOcpTypeNameOnly ==
  ~ocpOk
  => (/\ \A i \in 1..Len(shapes) :
           /\ LooksLikeCompound(ocpOk, shapes[i])
                <=> (PyType(Wrapped(shapes[i])) = "TopoDS_Compound")
           /\ ExplodeCompoundToSupported(ocpOk, shapes[i]) = <<shapes[i]>>
      /\ calls # <<>> => (imported /\ importRes.mode # "raise")
      /\ (imported /\ importRes.mode # "raise")
           => LET normalized == NormalizeCadObjects(ToSequence(importRes))
              IN  /\ shapes = normalized
                  /\ \A k \in 1..Len(calls) : calls[k].shapes = shapes
                  /\ (pc = "failed" /\ normalized # <<>>) => calls # <<>>)

\* without OCP, five passes over a compound known by its type name, and the
\* exporter invoked with it
C16_Witness ==
  /\ ~ocpOk
  /\ passes = 5
  /\ calls # <<>>
  /\ AnyCompound(ocpOk, calls[1].shapes)

\* C17: main returns 0 exactly when the conversion completed and the output
\* was written; when the conversion raised, it has printed the error message
\* and the installation hint and returns a code that is not 0; it returns
\* nothing before the conversion has ended.
C17_ExitCode ==
  /\ (exit.code = 0) <=> (pc = "done" /\ outWrites = 1 /\ err = NoError)
  /\ pc = "failed"
       => (/\ err # NoError
           /\ exit.code \notin {0, NotReturned.code}
           /\ exit.stderr = <<"Error", "Hint">>
           /\ exit.stdout = <<>>)
  /\ pc = "done" => exit.stderr = <<>>
  /\ ~Terminal => exit = NotReturned

\* the conversion failed in the parser and main returned 2
C17_Witness ==
  /\ pc = "failed" /\ err.kind = "Parse"
  /\ exit.code = 2

\* C18: a text that does not reduce to strict JSON, as one with no "{", with
\* no "}" or with its last "}" before its first "{", makes the parser raise;
\* convert then fails with that error at once: no further invocation of the
\* exporter, no recovery pass, no color override, no output written.
C18_ParseFailureIsFatal ==
  /\ [](/\ \A t \in {NoOpenText, NoCloseText, ReversedText} : ~Parsed[t].ok
        /\ (pc = "failed" /\ err.kind = "Parse")
             => (/\ ~Parsed[jsText].ok
                 /\ color = <<>> /\ data = NoDoc
                 /\ outWrites = 0 /\ outFile = "absent")
        /\ pc \in {"post", "done"} => Parsed[jsText].ok)
  /\ [][/\ (pc = "parse" /\ ~Parsed[jsText].ok)
             => (/\ pc' = "failed" /\ err'.kind = "Parse"
                 /\ calls' = calls /\ reflattens' = reflattens
                 /\ shapes' = shapes /\ passes' = passes
                 /\ data' = data /\ color' = color
                 /\ outWrites' = outWrites /\ outFile' = outFile)
        /\ pc # "failed"]_vars

\* the text written after a recovery pass has no "}"
C18_Witness ==
  /\ pc = "failed" /\ err.kind = "Parse"
  /\ jsText = NoCloseText
  /\ reflattens = 1

\* the pre-export loop has made its 5 passes and an element of the sequence
\* is still classified as a compound
Stuck ==
  /\ passes = 5 /\ pc # "flatten"
  /\ AnyCompound(ocpOk, shapes)

\* C19: when an element is still classified as a compound after the 5th pass,
\* the sequence that pass produced is the one every invocation of the
\* exporter is given (the recovery pass leaves it as it is), and an invocation
\* the exporter rejects is followed by another with that sequence or else its
\* rejection is the error convert raises.
C19_StuckSequencePassedOn ==
  /\ [](Stuck
         => (/\ \A k \in 1..Len(calls) : calls[k].shapes = shapes
             /\ \A k \in 1..Len(calls) :
                  (calls[k].out.res = "raise" /\ k = Len(calls))
                  => \/ pc \in {"call_fallback", "handler", "retry_tol",
                                "retry_fallback"}
                     \/ /\ pc = "failed"
                        /\ err.kind = "Exporter" /\ err.call = k
                        /\ err.cls = calls[k].out.cls
                        /\ err.compound = calls[k].out.compound))
  /\ [][/\ (pc = "flatten" /\ iter = 5) => (pc' = "check" /\ shapes' = shapes)
        /\ Stuck => (shapes' = shapes /\ Stuck')]_vars

\* the stuck sequence was rejected, passed again after the recovery pass, and
\* rejected again
C19_Witness ==
  /\ Stuck
  /\ pc = "failed"
  /\ Len(calls) = 2 /\ reflattens = 1
  /\ err.call = 2

\* C20: the recovery pass is made only after an exporter error whose message
\* names Compound; an exporter error with another message that is not taken by
\* the fallback is raised by convert at once, with no recovery pass and no
\* further invocation.
C20_RecoveryOnlyForCompound ==
  /\ [](/\ reflattens >= 1
             => \E k \in 1..Len(calls) :
                  /\ calls[k].retry = 0
                  /\ calls[k].out.res = "raise" /\ calls[k].out.compound
                  /\ ~(calls[k].tol /\ calls[k].out.cls = "TypeError")
                  /\ k < Len(calls) => calls[k + 1].retry = 1
        /\ \A k \in 1..Len(calls) :
             (/\ calls[k].out.res = "raise" /\ ~calls[k].out.compound
              /\ ~(calls[k].tol /\ calls[k].out.cls = "TypeError"))
             => (/\ k = Len(calls)
                 /\ reflattens = calls[k].retry
                 /\ pc \in {"handler", "failed"}
                 /\ pc = "failed" => (err.kind = "Exporter" /\ err.call = k)))
  /\ [][(pc = "handler" /\ ~pending.compound)
          => (/\ pc' = "failed" /\ err' = pending
              /\ calls' = calls /\ shapes' = shapes /\ names' = names
              /\ reflattens' = reflattens)]_vars

\* the fallback's error names no compound and convert raised it
C20_Witness ==
  /\ pc = "failed"
  /\ Len(calls) = 2 /\ reflattens = 0
  /\ calls[1].out.cls = "TypeError"
  /\ err.call = 2 /\ ~err.compound

\* the results of the steps of _explode_compound_to_supported over a handle,
\* in the order they are tried
ExplodeSteps(shape) ==
  LET topo       == Wrapped(shape)
      compsolids == CollectFrom(topo, "CompSolid")
      compounds  == CollectFrom(topo, "Compound")
  IN  << CollectFrom(topo, "Solid"),
         Extend([i \in 1..Len(compsolids) |-> CollectFrom(compsolids[i], "Solid")]),
         CollectFrom(topo, "Shell"),
         CollectFrom(topo, "Face"),
         Extend([i \in 1..Len(compounds) |->
                   ExplodeCompoundToSupported(TRUE, compounds[i])]),
         <<shape>> >>

\* the number of the first step with a result
FirstStep(steps) ==
  CHOOSE i \in 1..Len(steps) :
    steps[i] # <<>> /\ \A j \in 1..(i - 1) : steps[j] = <<>>

\* C21: with the OCP utilities at hand, flattening a handle returns the
\* result of the first step that has one, the steps being in this order: the
\* solids under it, the solids under its compsolids, its shells, its faces,
\* the flattened compounds the explorer yields for it, and the handle
\* itself; what it returns is the result of one step, never of two.
C21_FirstNonEmptyStep ==
  (unit = "explode" /\ returned /\ input.ocp)
    => /\ output = ExplodeSteps(input.shape)[FirstStep(ExplodeSteps(input.shape))]
       /\ \E i \in 1..6 : output = ExplodeSteps(input.shape)[i]

\* a compound of a free shell and a free face came back as its shell alone
C21_Witness ==
  /\ unit = "explode" /\ returned /\ input.ocp
  /\ input.shape = 19
  /\ output = <<3>>
  /\ FirstStep(ExplodeSteps(19)) = 3

\* C22: flattening a handle returns at least one element, also when its
\* classification or its enumeration raises; normalization, a flatten pass
\* and the recovery pass return a sequence at least as long as the one they
\* were given, so none of them empties a non-empty sequence.
C22_NeverShorter ==
  returned
    => /\ unit = "explode" => Len(output) >= 1
       /\ unit = "normalize" => Len(output) >= Len(input)
       /\ unit \in {"flatten", "recover"}
            => /\ Len(output) >= Len(input.shapes)
               /\ input.shapes # <<>> => output # <<>>

\* the recovery pass over a compound no explorer runs over and one whose
\* classification raises kept the first and did not shrink
C22_Witness ==
  /\ unit = "recover" /\ returned /\ input.ocp
  /\ input.shapes = <<18, 9>>
  /\ output = <<18, 1>>

\* the primitives (solids, shells and faces) under a raw shape
RECURSIVE Primitives(_)
Primitives(t) ==
  IF Kind(t) \in {"Solid", "Shell", "Face"} THEN {t}
  ELSE UNION {Primitives(Children(t)[i]) : i \in 1..Len(Children(t))}

\* C23 as stated: every primitive under a handle is, or is under, some
\* element of what flattening the handle returns.
C23_NoGeometryDropped ==
  (unit = "explode" /\ returned)
    => \A p \in Primitives(Wrapped(input.shape)) :
         \E i \in 1..Len(output) : p \in Primitives(Wrapped(output[i]))

\* C24: normalization, a flatten pass and the recovery pass return the
\* concatenation, in the order of the input, of what each element expands
\* to: nothing is left out, doubled or moved.
C24_ConcatenationInOrder ==
  returned
    => /\ unit = "normalize"
            => output = Extend([i \in 1..Len(input) |-> NormalizeOne(input[i])])
       /\ unit \in {"flatten", "recover"}
            => /\ output =
                    Extend([i \in 1..Len(input.shapes) |->
                              ExplodeCompoundToSupported(input.ocp, input.shapes[i])])
               /\ \A k \in 0..Len(input.shapes) :
                    output =
                      FlattenShapes(input.ocp, SubSeq(input.shapes, 1, k))
                        \o FlattenShapes(input.ocp,
                              SubSeq(input.shapes, k + 1, Len(input.shapes)))

\* a flatten pass over a shell and a compound of two solids
C24_Witness ==
  /\ unit = "flatten" /\ returned /\ input.ocp
  /\ input.shapes = <<3, 5>>
  /\ output = <<3, 1, 2>>

\* C28: flattening a handle, a flatten pass, the recovery pass and the
\* pre-export loop each come to an end over every shape, among them the
\* empty compound, for which the explorer's enumeration of compounds yields
\* the compound itself: the recursion over that compound ends at the frame
\* limit with the compound, flattening, a flatten pass and the recovery pass
\* return in one step, and every step of the loop either leaves it or uses
\* up one of its five iterations.
C28_FlattenTerminates ==
  [][ /\ \A d \in 1..RecursionLimit : ExplodeDepth(TRUE, 6, d) = <<6>>
      /\ unit \in {"explode", "flatten", "recover"} => returned'
      /\ unit = "loop"
           => \/ returned'
              \/ /\ output'[1] = output[1] + 1
                 /\ output'[1] <= FlattenPasses ]_vars

\* the pre-export loop over the empty compound was left after its five
\* passes, each of which returned the compound
C28_Witness ==
  /\ unit = "loop" /\ returned /\ input.ocp
  /\ input.shapes = <<6>>
  /\ CollectFrom(6, "Compound") = <<6>>
  /\ ExplodeCompoundToSupported(TRUE, 6) = <<6>>
  /\ output = <<FlattenPasses, <<6>>>>

\* whether the parts of the document `after` are those of `before`, as many
\* and in the same order, with color c where `before` had a color
PartsRecolored(before, after, c) ==
  (before.t = "obj" /\ PartsKey \in DOMAIN before.v /\ before.v[PartsKey].t = "arr")
    => /\ after.t = "obj" /\ PartsKey \in DOMAIN after.v
       /\ after.v[PartsKey].t = "arr"
       /\ Len(after.v[PartsKey].v) = Len(before.v[PartsKey].v)
       /\ \A i \in 1..Len(before.v[PartsKey].v) :
            LET old == before.v[PartsKey].v[i]
                new == after.v[PartsKey].v[i]
            IN  IF old.t = "obj" /\ ColorKey \in DOMAIN old.v
                  THEN /\ new.t = "obj"
                       /\ new.v = [old.v EXCEPT ![ColorKey] = [t |-> "str", v |-> c]]
                ELSE new = old

\* C25 as stated: for every color passed, the empty one too, every part
\* that had a color has the color passed, and the parts are as many and in
\* the same order; when no color is passed the document is as parsed.
C25_EveryColorApplied ==
  (unit = "postprocess" /\ returned)
    => IF input.given THEN PartsRecolored(input.doc, output, input.color)
       ELSE output = input.doc

\* C25, amended: for every non-empty color passed, every part that had a
\* color has the color passed, and the parts are as many and in the same
\* order; when no color or the empty color is passed the document is as
\* parsed.
C25_NonEmptyColorApplied ==
  (unit = "postprocess" /\ returned)
    => IF input.given /\ input.color # <<>>
         THEN PartsRecolored(input.doc, output, input.color)
       ELSE output = input.doc

\* a color was passed and the colored part of the viewer's document has it,
\* the other part being what it was
C25_Witness ==
  /\ unit = "postprocess" /\ returned
  /\ input.given /\ input.color = <<"#", "f", "0", "0">>
  /\ input.doc = ParseJsObjectLiteral(ViewerText).doc
  /\ output.v[PartsKey].v[1].v[ColorKey] = [t |-> "str", v |-> <<"#", "f", "0", "0">>]
  /\ output.v[PartsKey].v[2] = input.doc.v[PartsKey].v[2]

\* whether a page has the opening tag of a section
HasSection(page, sec) ==
  \E i \in 1..Len(page) : page[i] = OpenTag("section", <<sec>>)

\* C26 as stated: when resume.json is loaded, the generated page has each
\* list section exactly when the resume has that list and it is not empty.
C26_SectionsFollowLists ==
  (unit = "generate" /\ returned /\ input.loaded)
    => \A n \in 1..Len(Sections) :
         HasSection(output, Sections[n]) <=> input.lists[Sections[n]] = "some"

\* C26, amended: when resume.json is loaded and is not an empty object, the
\* generated page has each list section exactly when the resume has that
\* list and it is not empty, and a section that is kept holds the rendered
\* items; when resume.json is an empty object, or could not be loaded, the
\* page is the template with all its sections.
C26_SectionsFollowListsOfData ==
  (unit = "generate" /\ returned)
    => IF HasResumeData(input)
         THEN \A n \in 1..Len(Sections) :
                /\ HasSection(output, Sections[n])
                     <=> input.lists[Sections[n]] = "some"
                /\ (\E i \in 1..Len(output) : output[i] = Text(Sections[n]))
                     <=> input.lists[Sections[n]] = "some"
       ELSE output = Template

\* references empty, skills not: the page has the skills section and no
\* references section
C26_Witness ==
  /\ unit = "generate" /\ returned /\ input.loaded
  /\ input.lists["references"] = "empty"
  /\ input.lists["skills"] = "some"
  /\ HasSection(output, "skills")
  /\ ~HasSection(output, "references")
  /\ HasSection(Template, "references")


\* C27 (as stated): ensure_page_exists(force=True) always generates a page
\* and returns the path of an existing file; without force it returns the
\* newest page without generating exactly when a page exists, neither the
\* template nor resume.json is later than it and it holds no relative
\* ./assets/ reference; in every other case it generates and returns the path
LatestPages(pages) ==
  {n \in PageNames : pages[n].exists
                     /\ \A m \in PageNames : pages[m].exists => pages[m].mtime <= pages[n].mtime}

SourceLater(fs) ==
  \E src \in {fs.template, fs.resume}, n \in LatestPages(fs.pages) :
    src.exists /\ src.mtime > fs.pages[n].mtime

FirstLatest(fs) ==
  CHOOSE n \in LatestPages(fs.pages) :
    \A m \in LatestPages(fs.pages) :
      \E i, j \in 1..Len(fs.listing) :
        fs.listing[i] = n /\ fs.listing[j] = m /\ i <= j

Generated(out) ==
  /\ ~out.raised /\ out.generated
  /\ out.path \in PageNames /\ out.pages[out.path].exists
  /\ out.pages[out.path].mtime = Now

Kept(fs, out) ==
  /\ ~out.raised /\ ~out.generated
  /\ out.path = FirstLatest(fs)
  /\ out.pages = fs.pages

C27_EnsureAlwaysYieldsPage ==
  (unit = "ensure" /\ returned) =>
    LET fs == input.fs
        keep == /\ ~input.force
                /\ LatestPages(fs.pages) # {}
                /\ ~SourceLater(fs)
                /\ fs.pages[FirstLatest(fs)].content \in {"clean", "unreadable"}
    IN  IF keep THEN Kept(fs, output) ELSE Generated(output)

\* C27 (amended): as stated when the template exists, with "no relative
\* reference" read as the page being readable and holding neither
\* href="./assets/ nor src="./assets/; when the call has to generate and the
\* template is missing it raises and leaves page/ as it was
C27_EnsureYieldsPageGivenTemplate ==
  (unit = "ensure" /\ returned) =>
    LET fs == input.fs
        keep == /\ ~input.force
                /\ LatestPages(fs.pages) # {}
                /\ ~SourceLater(fs)
                /\ fs.pages[FirstLatest(fs)].content \in {"clean", "other"}
    IN  IF keep THEN Kept(fs, output)
        ELSE IF fs.template.exists THEN Generated(output)
        ELSE output.raised /\ ~output.generated /\ output.pages = fs.pages

\* two pages, the later one listed second and clean, sources not later: kept
C27_Witness ==
  /\ unit = "ensure" /\ returned
  /\ ~input.force
  /\ input.fs.listing = <<1, 2, 3>>
  /\ input.fs.pages[1].exists /\ input.fs.pages[1].mtime = 0
  /\ input.fs.pages[2].exists /\ input.fs.pages[2].mtime = 1
  /\ input.fs.template.exists /\ input.fs.template.mtime = 1
  /\ output.path = 2 /\ ~output.generated


\* whether a file lies in the served root directory or below it
InRoot(file) ==
  /\ Len(file) >= Len(Root)
  /\ SubSeq(file, 1, Len(Root)) = Root

\* C29: the compressing static-file branch of do_GET returns only files
\* inside the served root directory, whatever the request path
C29_OnlyFilesInRoot ==
  \A t \in Threads :
    (handler[t].response.status = 200 /\ handler[t].response.via = "compress")
      => InRoot(handler[t].response.file)

\* C30: under every interleaving of GET / and /index.html requests, every
\* 200 response carries the whole content of a written page
C30_ServedPagesAreWhole ==
  \A t \in Threads :
    (handler[t].request \in Routed /\ handler[t].response.status = 200)
      => handler[t].response.body = "clean"

====
